---- MODULE Spec2Model ----
(***************************************************************************)
(* hoogle-effect: type-signature search.                                   *)
(*                                                                         *)
(* The model covers the query parser (type-parser), the unifier            *)
(* (type-unifier) and the search orchestration (type-search).              *)
(*                                                                         *)
(* Strings are sequences of one-character strings, so that trimming,       *)
(* splitting, case folding and text comparison are computed, not assumed.  *)
(* Scores are JavaScript numbers; they are modelled as exact rationals     *)
(* <<numerator, denominator>> in lowest terms, with <<0, 0>> for NaN.      *)
(***************************************************************************)
EXTENDS Integers, Sequences, FiniteSets, TLC

VARIABLES
  pc,          \* position of the running call
  query,       \* searchByType: the query string
  functions,   \* searchByType: the catalog (FunctionEntry[])
  limit,       \* searchByType: the limit argument
  queryType,   \* searchByType: parseTypeQuery(query), or Null
  idx,         \* searchByType: index of the entry the for-loop is at
  pidx,        \* matchFunction: index of the parameter the for-loop is at
  mres,        \* matchFunction: the TypeMatchResult it returns for the entry
  results,     \* searchByType: the local results array
  returned,    \* searchByType: the array it returns
  attempts,    \* every unifyTypes call matchFunction made, in order
  uq, ut, ub, ud,  \* unifyTypes: query, target, context.bindings, depth
  ures,        \* unifyTypes: what the call returned
  pquery,      \* parseTypeQuery: the query string
  presult,     \* parseTypeQuery: what the call returned
  ptext,       \* parseType: the argument of the call that is looked at
  pcaller,     \* parseType: the trimmed input of the call that made it
  inv,         \* interleaved searchByType calls: the locals of each
  tables       \* interleaved searchByType calls: the Maps created so far

vars == <<pc, query, functions, limit, queryType, idx, pidx, mres, results,
          returned, attempts, uq, ut, ub, ud, ures, pquery, presult, ptext,
          pcaller, inv, tables>>

searchVars == <<query, functions, limit, queryType, idx, pidx, mres, results,
                returned, attempts>>

unifyVars == <<uq, ut, ub, ud, ures>>

parseVars == <<pquery, presult, ptext, pcaller>>

interleavedVars == <<inv, tables>>

-----------------------------------------------------------------------------
(* Characters and strings                                                  *)

UpperSeq ==
  <<"A","B","C","D","E","F","G","H","I","J","K","L","M",
    "N","O","P","Q","R","S","T","U","V","W","X","Y","Z">>

LowerSeq ==
  <<"a","b","c","d","e","f","g","h","i","j","k","l","m",
    "n","o","p","q","r","s","t","u","v","w","x","y","z">>

Upper == {UpperSeq[i] : i \in 1..Len(UpperSeq)}

LowerCh == {LowerSeq[i] : i \in 1..Len(LowerSeq)}

Digit == {"0","1","2","3","4","5","6","7","8","9"}

\* What \s and String.prototype.trim treat as white space (the part of it
\* the model's alphabet holds).
Whitespace == {" ", "\t", "\n"}

\* What the regular expression dot does not match.
LineTerminator == {"\n"}

\* String.prototype.toLowerCase, one character.
LowerChar(c) ==
  IF c \in Upper
    THEN LowerSeq[CHOOSE i \in 1..Len(UpperSeq) : UpperSeq[i] = c]
    ELSE c

\* String.prototype.toLowerCase.
toLowerCase(s) == [i \in 1..Len(s) |-> LowerChar(s[i])]

\* String.prototype.slice(from, to) with 0-based, non-negative indices.
slice(s, from, to) == SubSeq(s, from + 1, IF to > Len(s) THEN Len(s) ELSE to)

RECURSIVE trimStart(_)
trimStart(s) ==
  IF s # <<>> /\ Head(s) \in Whitespace THEN trimStart(Tail(s)) ELSE s

RECURSIVE trimEnd(_)
trimEnd(s) ==
  IF s # <<>> /\ s[Len(s)] \in Whitespace
    THEN trimEnd(SubSeq(s, 1, Len(s) - 1))
    ELSE s

\* String.prototype.trim.
trim(s) == trimEnd(trimStart(s))

\* String.prototype.startsWith.
startsWith(s, p) == Len(s) >= Len(p) /\ SubSeq(s, 1, Len(p)) = p

\* String.prototype.endsWith.
endsWith(s, p) ==
  Len(s) >= Len(p) /\ SubSeq(s, Len(s) - Len(p) + 1, Len(s)) = p

\* String.prototype.includes, for a one-character needle.
includes(s, c) == \E i \in 1..Len(s) : s[i] = c

-----------------------------------------------------------------------------
(* Scores: JavaScript numbers as exact rationals                           *)

RECURSIVE GCD(_, _)
GCD(a, b) == IF b = 0 THEN a ELSE GCD(b, a % b)

NaN == <<0, 0>>

IsNaN(r) == r[2] = 0

Rat(n, d) ==
  IF d = 0 THEN NaN ELSE LET g == GCD(n, d) IN <<n \div g, d \div g>>

Num(k) == <<k, 1>>

Add(a, b) ==
  IF IsNaN(a) \/ IsNaN(b) THEN NaN
  ELSE Rat(a[1] * b[2] + b[1] * a[2], a[2] * b[2])

Mul(a, b) ==
  IF IsNaN(a) \/ IsNaN(b) THEN NaN ELSE Rat(a[1] * b[1], a[2] * b[2])

\* total / count; a zero count only ever divides a zero total: 0 / 0 is NaN.
Div(a, k) == IF IsNaN(a) \/ k = 0 THEN NaN ELSE Rat(a[1], a[2] * k)

\* a > b; false when either is NaN.
Gt(a, b) == ~IsNaN(a) /\ ~IsNaN(b) /\ a[1] * b[2] > b[1] * a[2]

\* a >= b; false when either is NaN.
Ge(a, b) == ~IsNaN(a) /\ ~IsNaN(b) /\ a[1] * b[2] >= b[1] * a[2]

\* Math.min(a, b); NaN when either is NaN.
MathMin(a, b) ==
  IF IsNaN(a) \/ IsNaN(b) THEN NaN ELSE IF Gt(a, b) THEN b ELSE a

-----------------------------------------------------------------------------
(* Type nodes                                                              *)

\* TypeNode.  An optional field that is absent is: typeName = <<>> (the code
\* never builds an empty name), hasTypeArguments / hasChildren = FALSE, and
\* isTypeVariable / isWildcard = FALSE.
TypeNode(kind, text, typeName, hasArgs, args, hasChildren, children, isTV, isWC) ==
  [kind |-> kind, text |-> text, typeName |-> typeName,
   hasTypeArguments |-> hasArgs, typeArguments |-> args,
   hasChildren |-> hasChildren, children |-> children,
   isTypeVariable |-> isTV, isWildcard |-> isWC]

\* { kind, text }
LeafNode(kind, text) ==
  TypeNode(kind, text, <<>>, FALSE, <<>>, FALSE, <<>>, FALSE, FALSE)

\* { kind: "typeVariable", text, isTypeVariable: true }
TypeVariableNode(text) ==
  TypeNode("typeVariable", text, <<>>, FALSE, <<>>, FALSE, <<>>, TRUE, FALSE)

\* { kind: "wildcard", text: "*", isWildcard: true }
WildcardNode ==
  TypeNode("wildcard", <<"*">>, <<>>, FALSE, <<>>, FALSE, <<>>, FALSE, TRUE)

\* { kind: "reference", text, typeName }
ReferenceNode(text) ==
  TypeNode("reference", text, text, FALSE, <<>>, FALSE, <<>>, FALSE, FALSE)

\* { kind, text, typeName, typeArguments }
GenericNode(kind, text, typeName, args) ==
  TypeNode(kind, text, typeName, TRUE, args, FALSE, <<>>, FALSE, FALSE)

\* { kind, text, children }   (function, union, tuple)
ChildrenNode(kind, text, children) ==
  TypeNode(kind, text, <<>>, FALSE, <<>>, TRUE, children, FALSE, FALSE)

-----------------------------------------------------------------------------
(* Query parser (type-parser.ts)                                           *)

S_string == <<"s","t","r","i","n","g">>
S_number == <<"n","u","m","b","e","r">>
S_boolean == <<"b","o","o","l","e","a","n">>
S_void == <<"v","o","i","d">>
S_never == <<"n","e","v","e","r">>
S_unknown == <<"u","n","k","n","o","w","n">>
S_any == <<"a","n","y">>
S_null == <<"n","u","l","l">>
S_undefined == <<"u","n","d","e","f","i","n","e","d">>

S_Effect == <<"E","f","f","e","c","t">>
S_Stream == <<"S","t","r","e","a","m">>
S_Layer == <<"L","a","y","e","r">>
S_Schedule == <<"S","c","h","e","d","u","l","e">>
S_Fiber == <<"F","i","b","e","r">>
S_Exit == <<"E","x","i","t">>
S_Cause == <<"C","a","u","s","e">>

PRIMITIVE_TYPES ==
  {S_string, S_number, S_boolean, S_void, S_never, S_unknown, S_any, S_null,
   S_undefined}

EFFECT_TYPES ==
  {S_Effect, S_Stream, S_Layer, S_Schedule, S_Fiber, S_Exit, S_Cause}

\* The value parseTypeQuery and parseUnion return for "nothing".
Null == LeafNode("null", <<>>)

\* The first index from i on that holds no white space (Len(s) + 1 if none).
RECURSIVE SkipWhitespace(_, _)
SkipWhitespace(s, i) ==
  IF i <= Len(s) /\ s[i] \in Whitespace THEN SkipWhitespace(s, i + 1) ELSE i

\* query.replace(/\s+->\s+/g, " => "), from index i (1-based) on.
RECURSIVE ReplaceArrowsFrom(_, _)
ReplaceArrowsFrom(s, i) ==
  IF i > Len(s) THEN <<>>
  ELSE IF s[i] \in Whitespace THEN
    LET j == SkipWhitespace(s, i)
    IN  IF /\ j + 2 <= Len(s)
           /\ s[j] = "-" /\ s[j + 1] = ">"
           /\ s[j + 2] \in Whitespace
          THEN <<" ", "=", ">", " ">>
                 \o ReplaceArrowsFrom(s, SkipWhitespace(s, j + 2))
          ELSE <<s[i]>> \o ReplaceArrowsFrom(s, i + 1)
  ELSE <<s[i]>> \o ReplaceArrowsFrom(s, i + 1)

\* A normalizeArrows that rewrites nothing.
normalizeArrows_Unchanged(q) == q

normalizeArrows(q) == ReplaceArrowsFrom(q, 1)

\* /^[A-Z]\d*$/.test(text)
isTypeVariable(text) ==
  /\ Len(text) >= 1
  /\ text[1] \in Upper
  /\ \A i \in 2..Len(text) : text[i] \in Digit

\* The for-loop of splitTypeArgs, from character i (1-based) on.
RECURSIVE SplitLoop(_, _, _, _, _)
SplitLoop(args, i, depth, current, result) ==
  IF i > Len(args) THEN
    IF trim(current) # <<>> THEN Append(result, trim(current)) ELSE result
  ELSE
    LET char == args[i]
        d1 == IF char = "<" \/ char = "(" THEN depth + 1 ELSE depth
        d2 == IF char = ">" \/ char = ")" THEN d1 - 1 ELSE d1
    IN  IF char = "," /\ d2 = 0
          THEN SplitLoop(args, i + 1, d2, <<>>, Append(result, trim(current)))
          ELSE SplitLoop(args, i + 1, d2, Append(current, char), result)

splitTypeArgs(args) == SplitLoop(args, 1, 0, <<>>, <<>>)

\* The depth after the character char, in findArrowPosition and parseUnion.
BracketDepth(depth, char) ==
  LET d1 == IF char \in {"<", "(", "["} THEN depth + 1 ELSE depth
  IN  IF char \in {">", ")", "]"} THEN d1 - 1 ELSE d1

\* The for-loop of findArrowPosition, from index i (0-based) on.
RECURSIVE ArrowLoop(_, _, _)
ArrowLoop(input, i, depth) ==
  IF i >= Len(input) - 1 THEN -1
  ELSE
    LET d == BracketDepth(depth, input[i + 1])
    IN  IF d = 0 /\ slice(input, i, i + 2) = <<"=", ">">>
          THEN i
          ELSE ArrowLoop(input, i + 1, d)

\* The 0-based position of the top-level arrow, or -1.
findArrowPosition(input) == ArrowLoop(input, 0, 0)

\* The while-loop of parseType that looks for the matching close paren.
RECURSIVE CloseParenLoop(_, _, _)
CloseParenLoop(input, closeIdx, depth) ==
  IF closeIdx < Len(input) /\ depth > 0 THEN
    LET c == input[closeIdx + 1]
        d1 == IF c = "(" THEN depth + 1 ELSE depth
        d2 == IF c = ")" THEN d1 - 1 ELSE d1
    IN  CloseParenLoop(input, closeIdx + 1, d2)
  ELSE closeIdx - 1

IdentStart(c) == c \in Upper \/ c \in LowerCh \/ c = "_"

IdentChar(c) == IdentStart(c) \/ c \in Digit

\* The first index from i on that holds no identifier character.
RECURSIVE SkipIdent(_, _)
SkipIdent(s, i) ==
  IF i <= Len(s) /\ IdentChar(s[i]) THEN SkipIdent(s, i + 1) ELSE i

\* input.match(/^([A-Za-z_][A-Za-z0-9_]*)\s*<(.+)>$/): whether it matches, and
\* its two groups.
genericMatch(input) ==
  IF input = <<>> \/ ~IdentStart(input[1]) THEN
    [found |-> FALSE, typeName |-> <<>>, argsStr |-> <<>>]
  ELSE
    LET e == SkipIdent(input, 1)
        lt == SkipWhitespace(input, e)
    IN  IF /\ lt <= Len(input) /\ input[lt] = "<"
           /\ input[Len(input)] = ">"
           /\ Len(input) - 1 >= lt + 1
           /\ \A k \in (lt + 1)..(Len(input) - 1) :
                input[k] \notin LineTerminator
          THEN [found |-> TRUE,
                typeName |-> SubSeq(input, 1, e - 1),
                argsStr |-> SubSeq(input, lt + 1, Len(input) - 1)]
          ELSE [found |-> FALSE, typeName |-> <<>>, argsStr |-> <<>>]

RECURSIVE parseType(_)
RECURSIVE UnionLoop(_, _, _)
RECURSIVE parseUnion(_)

\* args.map(parseType)
MapParseType(parts) == [k \in 1..Len(parts) |-> parseType(parts[k])]

\* A loop that goes on to the last "|" it could split at.
RECURSIVE UnionLoop_LastBar(_, _, _)
UnionLoop_LastBar(input, i, depth) ==
  IF i >= Len(input) THEN -1
  ELSE
    LET char == input[i + 1]
        d == BracketDepth(depth, char)
        left == trim(slice(input, 0, i))
        right == trim(slice(input, i + 1, Len(input)))
        later == UnionLoop_LastBar(input, i + 1, d)
    IN  IF later # -1 THEN later
        ELSE IF d = 0 /\ char = "|" /\ left # <<>> /\ right # <<>> THEN i
        ELSE -1

\* The for-loop of parseUnion, from index i (0-based) on: the index of the
\* "|" it splits at, or -1.
UnionLoop(input, i, depth) ==
  IF i >= Len(input) THEN -1
  ELSE
    LET char == input[i + 1]
        d == BracketDepth(depth, char)
        left == trim(slice(input, 0, i))
        right == trim(slice(input, i + 1, Len(input)))
    IN  IF d = 0 /\ char = "|" /\ left # <<>> /\ right # <<>>
          THEN i
          ELSE UnionLoop(input, i + 1, d)

\* The two sides parseUnion splits input into at index i.
UnionSides(input, i) ==
  <<trim(slice(input, 0, i)), trim(slice(input, i + 1, Len(input)))>>

parseUnion(input) ==
  LET i == UnionLoop(input, 0, 0)
  IN  IF i = -1 THEN Null
      ELSE ChildrenNode("union", input, MapParseType(UnionSides(input, i)))

\* parseType for an input that starts with "(".
ParseParenthesized(input) ==
  LET closeIdx == CloseParenLoop(input, 1, 1)
      inner == trim(slice(input, 1, closeIdx))
      rest == trim(slice(input, closeIdx + 1, Len(input)))
  IN  IF startsWith(rest, <<"=", ">">>) THEN
        LET returnPart == trim(slice(rest, 2, Len(rest)))
            params == IF inner # <<>>
                        THEN MapParseType(splitTypeArgs(inner))
                        ELSE <<>>
        IN  ChildrenNode("function", input,
                         params \o <<parseType(returnPart)>>)
      ELSE parseType(inner)

\* parseType for an input with a top-level arrow at arrowPos.
ParseArrow(input, arrowPos) ==
  LET paramPart == trim(slice(input, 0, arrowPos))
      returnPart == trim(slice(input, arrowPos + 2, Len(input)))
      params == IF includes(paramPart, ",")
                  THEN MapParseType(splitTypeArgs(paramPart))
                  ELSE <<parseType(paramPart)>>
  IN  ChildrenNode("function", input, params \o <<parseType(returnPart)>>)

\* The leaf rules of parseType: type variable, primitive, reference.
ParseLeaf(input) ==
  IF isTypeVariable(input) THEN TypeVariableNode(input)
  ELSE IF toLowerCase(input) \in PRIMITIVE_TYPES THEN
    LeafNode("primitive", toLowerCase(input))
  ELSE ReferenceNode(input)

parseType(raw) ==
  LET input == trim(raw)
  IN
  IF input = <<>> THEN LeafNode("unknown", <<>>)
  ELSE IF startsWith(input, <<"(">>) THEN ParseParenthesized(input)
  ELSE IF findArrowPosition(input) # -1 THEN
    ParseArrow(input, findArrowPosition(input))
  ELSE IF parseUnion(input) # Null THEN parseUnion(input)
  ELSE IF input = <<"*">> THEN WildcardNode
  ELSE IF genericMatch(input).found THEN
    LET m == genericMatch(input)
    IN  GenericNode(IF m.typeName \in EFFECT_TYPES THEN "effect" ELSE "generic",
                    input, m.typeName, MapParseType(splitTypeArgs(m.argsStr)))
  ELSE IF startsWith(input, <<"[">>) /\ endsWith(input, <<"]">>) THEN
    ChildrenNode("tuple", input,
                 MapParseType(splitTypeArgs(trim(slice(input, 1, Len(input) - 1)))))
  ELSE ParseLeaf(input)

\* Whether every bracket of q is closed: the depth findArrowPosition keeps is
\* 0 at the end.
RECURSIVE DepthAfter(_, _, _)
DepthAfter(q, i, depth) ==
  IF i > Len(q) THEN depth ELSE DepthAfter(q, i + 1, BracketDepth(depth, q[i]))

\* The texts parseType(input) hands to its recursive calls, in call order
\* (input is trimmed and not empty).
SubTexts(input) ==
  IF startsWith(input, <<"(">>) THEN
    LET closeIdx == CloseParenLoop(input, 1, 1)
        inner == trim(slice(input, 1, closeIdx))
        rest == trim(slice(input, closeIdx + 1, Len(input)))
    IN  IF startsWith(rest, <<"=", ">">>)
          THEN (IF inner # <<>> THEN splitTypeArgs(inner) ELSE <<>>)
                 \o <<trim(slice(rest, 2, Len(rest)))>>
          ELSE <<inner>>
  ELSE IF findArrowPosition(input) # -1 THEN
    LET arrowPos == findArrowPosition(input)
        paramPart == trim(slice(input, 0, arrowPos))
    IN  (IF includes(paramPart, ",") THEN splitTypeArgs(paramPart)
                                     ELSE <<paramPart>>)
          \o <<trim(slice(input, arrowPos + 2, Len(input)))>>
  ELSE IF UnionLoop(input, 0, 0) # -1 THEN
    UnionSides(input, UnionLoop(input, 0, 0))
  ELSE IF input = <<"*">> THEN <<>>
  ELSE IF genericMatch(input).found THEN
    splitTypeArgs(genericMatch(input).argsStr)
  ELSE IF startsWith(input, <<"[">>) /\ endsWith(input, <<"]">>) THEN
    splitTypeArgs(trim(slice(input, 1, Len(input) - 1)))
  ELSE <<>>

\* A parseTypeQuery that gives up on a query with an unclosed bracket.
parseTypeQuery_BalancedOnly(q) ==
  IF trim(q) = <<>> \/ DepthAfter(q, 1, 0) # 0
    THEN Null
    ELSE parseType(normalizeArrows(trim(q)))

\* A parseTypeQuery that tests the query for emptiness without trimming it.
parseTypeQuery_Untrimmed(q) ==
  IF q = <<>> THEN Null ELSE parseType(normalizeArrows(q))

\* parseTypeQuery: null for an empty query, else the parse of the
\* arrow-normalized query (parseType throws nothing the catch could turn
\* into null).
parseTypeQuery(q) ==
  IF trim(q) = <<>> THEN Null ELSE parseType(normalizeArrows(trim(q)))

-----------------------------------------------------------------------------
(* Unifier (type-unifier.ts, types.ts)                                     *)

\* Maximum recursion depth.
MAX_UNIFY_DEPTH == 10

\* A Map<string, TypeNode> is a function from the bound names to nodes.
EmptyMap == <<>>

MapHas(b, k) == k \in DOMAIN b

MapSet(b, k, v) == [x \in (DOMAIN b) \cup {k} |-> IF x = k THEN v ELSE b[x]]

\* createContext(): { bindings: new Map(), score: 100 }
createContext == EmptyMap

\* noMatch()
noMatch ==
  [matches |-> FALSE, score |-> Num(0), bindings |-> EmptyMap,
   matchedParts |-> <<>>]

\* match(score, bindings, matchedParts)
match(score, bindings, matchedParts) ==
  [matches |-> TRUE, score |-> score, bindings |-> bindings,
   matchedParts |-> matchedParts]

\* What a call leaves behind: the TypeMatchResult it returns (res), the
\* contents of the context's Map when it returns (ctx: the Map is mutated in
\* place, and a match result's bindings field is that same Map), and the
\* <<caller's depth, callee's depth>> of every unifyTypes call made below it.
Out(res, ctx, calls) == [res |-> res, ctx |-> ctx, calls |-> calls]

\* A match whose bindings field is the context's Map.
Matched(score, ctx, parts, calls) == Out(match(score, ctx, parts), ctx, calls)

Failed(ctx, calls) == Out(noMatch, ctx, calls)

kindsCompatible(queryKind, targetKind) ==
  \/ queryKind = targetKind
  \/ queryKind = "effect" /\ targetKind = "generic"
  \/ queryKind = "generic" /\ targetKind = "effect"
  \/ queryKind = "typeVariable"
  \/ targetKind = "typeVariable"

\* A nested call made at the caller's own depth.
NestedDepth_Same(depth) == depth

\* The depth a nested unifyTypes call is made with.
NestedDepth(depth) == depth + 1

RECURSIVE unifyTypes(_, _, _, _)
RECURSIVE unifyFunctionTypes(_, _, _, _)
RECURSIVE unifyParameters(_, _, _, _)
RECURSIVE unifyTypeArguments(_, _, _, _)
RECURSIVE unifyUnionTypes(_, _, _, _)
RECURSIVE TupleLoop(_, _, _, _, _, _, _, _)
RECURSIVE ParametersLoop(_, _, _, _, _, _, _, _, _)
RECURSIVE TypeArgumentsLoop(_, _, _, _, _, _, _, _, _)
RECURSIVE UnionInnerLoop(_, _, _, _, _, _, _, _)
RECURSIVE UnionOuterLoop(_, _, _, _, _, _, _, _)

\* The tuple branch's for-loop, from element i (1-based) on.
TupleLoop(qc, tc, i, ctx, depth, totalScore, matchedParts, calls) ==
  IF i > Len(qc) THEN
    Matched(Div(totalScore, Len(qc)), ctx, matchedParts, calls)
  ELSE
    LET r == unifyTypes(qc[i], tc[i], ctx, NestedDepth(depth))
        cs == calls \cup r.calls \cup {<<depth, NestedDepth(depth)>>}
    IN  IF ~r.res.matches THEN Failed(r.ctx, cs)
        ELSE TupleLoop(qc, tc, i + 1, r.ctx, depth,
                       Add(totalScore, r.res.score),
                       matchedParts \o r.res.matchedParts, cs)

\* A bound-variable rule that matches a bound variable against anything.
BoundVariable_Unchecked(existing, target, ctx) ==
  IF existing.text = target.text THEN
    Matched(Num(90), ctx, <<target.text>>, {})
  ELSE IF existing.isTypeVariable \/ target.isTypeVariable THEN
    Matched(Num(85), ctx, <<target.text>>, {})
  ELSE
    Matched(Num(80), ctx, <<target.text>>, {})

\* A bound-variable rule that binds the variable anew, to the target.
BoundVariable_Rebinding(existing, target, ctx) ==
  LET name == CHOOSE k \in DOMAIN ctx : ctx[k] = existing
  IN  Matched(Num(90), MapSet(ctx, name, target), <<target.text>>, {})

\* The bound-variable rule of unifyTypes: query is a type variable that the
\* context already binds.
BoundVariable(existing, target, ctx) ==
  IF existing.text = target.text THEN
    Matched(Num(90), ctx, <<target.text>>, {})
  ELSE IF existing.isTypeVariable \/ target.isTypeVariable THEN
    Matched(Num(85), ctx, <<target.text>>, {})
  ELSE IF existing.kind # target.kind THEN
    Failed(ctx, {})
  ELSE IF existing.typeName # <<>> /\ target.typeName # <<>>
          /\ existing.typeName # target.typeName THEN
    Failed(ctx, {})
  ELSE
    Matched(Num(80), ctx, <<target.text>>, {})

\* A depth-limit rule that compares texts only.
AtMaxDepth_TextOnly(q, t, ctx) ==
  IF q.text = t.text THEN Matched(Num(60), ctx, <<t.text>>, {})
  ELSE Failed(ctx, {})

\* A depth-limit rule that lets a wildcard query through.
AtMaxDepth_WildcardFirst(q, t, ctx) ==
  IF q.text = t.text THEN Matched(Num(60), ctx, <<t.text>>, {})
  ELSE IF q.isWildcard \/ q.isTypeVariable \/ t.isTypeVariable THEN
    Matched(Num(50), ctx, <<t.text>>, {})
  ELSE Failed(ctx, {})

\* The depth-limit rule of unifyTypes.
AtMaxDepth(q, t, ctx) ==
  IF q.text = t.text THEN Matched(Num(60), ctx, <<t.text>>, {})
  ELSE IF q.isTypeVariable \/ t.isTypeVariable THEN
    Matched(Num(50), ctx, <<t.text>>, {})
  ELSE Failed(ctx, {})

\* A target-variable rule that turns function queries away.
TargetVariable_NoFunctions(q, t, ctx) ==
  IF q.kind = "function" THEN Failed(ctx, {})
  ELSE Matched(Num(85), ctx, <<t.text>>, {})

\* The rule of unifyTypes for a target that is a type variable.
TargetVariable(q, t, ctx) == Matched(Num(85), ctx, <<t.text>>, {})

\* A rule that matches an unbound variable without recording the binding.
FreshVariable_Unrecorded(q, t, ctx) == Matched(Num(90), ctx, <<t.text>>, {})

\* The unbound-variable rule of unifyTypes: the variable is bound to the
\* target.
FreshVariable(q, t, ctx) ==
  Matched(Num(90), MapSet(ctx, q.text, t), <<t.text>>, {})

\* A primitive rule that compares the texts as they are written.
PrimitiveRule_CaseSensitive(q, t, ctx) ==
  IF q.text = t.text
    THEN Matched(Num(100), ctx, <<t.text>>, {})
    ELSE Failed(ctx, {})

\* The primitive rule of unifyTypes.
PrimitiveRule(q, t, ctx) ==
  IF toLowerCase(q.text) = toLowerCase(t.text)
    THEN Matched(Num(100), ctx, <<t.text>>, {})
    ELSE Failed(ctx, {})

\* A wildcard rule that records what the wildcard stood for.
WildcardRule_Binding(t, ctx) ==
  Matched(Num(80), MapSet(ctx, <<"*">>, t), <<t.text>>, {})

\* The wildcard rule of unifyTypes.
WildcardRule(t, ctx) == Matched(Num(80), ctx, <<t.text>>, {})

unifyTypes(q, t, ctx, depth) ==
  IF depth >= MAX_UNIFY_DEPTH THEN AtMaxDepth(q, t, ctx)
  ELSE IF q.isWildcard THEN WildcardRule(t, ctx)
  ELSE IF q.isTypeVariable THEN
    IF MapHas(ctx, q.text) THEN BoundVariable(ctx[q.text], t, ctx)
    ELSE FreshVariable(q, t, ctx)
  ELSE IF t.isTypeVariable THEN TargetVariable(q, t, ctx)
  ELSE IF q.kind = "function" /\ t.kind = "function" THEN
    unifyFunctionTypes(q, t, ctx, depth)
  ELSE IF ~kindsCompatible(q.kind, t.kind) THEN Failed(ctx, {})
  ELSE IF q.kind \in {"generic", "effect"}
          /\ q.hasTypeArguments /\ t.hasTypeArguments THEN
    IF toLowerCase(q.typeName) # toLowerCase(t.typeName) THEN Failed(ctx, {})
    ELSE unifyTypeArguments(q.typeArguments, t.typeArguments, ctx, depth)
  ELSE IF q.kind = "primitive" THEN PrimitiveRule(q, t, ctx)
  ELSE IF q.kind = "reference" THEN
    IF \/ toLowerCase(q.typeName) = toLowerCase(t.typeName)
       \/ toLowerCase(q.text) = toLowerCase(t.text)
      THEN Matched(Num(100), ctx, <<t.text>>, {})
      ELSE Failed(ctx, {})
  ELSE IF q.kind = "union" /\ t.kind = "union" THEN
    unifyUnionTypes(q, t, ctx, depth)
  ELSE IF q.kind = "tuple" /\ t.kind = "tuple" THEN
    IF ~q.hasChildren \/ ~t.hasChildren THEN Failed(ctx, {})
    ELSE IF Len(q.children) # Len(t.children) THEN Failed(ctx, {})
    ELSE TupleLoop(q.children, t.children, 1, ctx, depth, Num(0), <<>>, {})
  ELSE IF toLowerCase(q.text) = toLowerCase(t.text) THEN
    Matched(Num(70), ctx, <<t.text>>, {})
  ELSE Failed(ctx, {})

\* query.children ?? []
ChildrenOrEmpty(n) == IF n.hasChildren THEN n.children ELSE <<>>

\* A combination that fails the match when the parameters score under 50.
CombineFunction_ParametersRequired(returnResult, paramOut, calls) ==
  IF Gt(Num(50), paramOut.res.score)
    THEN Failed(paramOut.ctx, calls \cup paramOut.calls)
    ELSE Matched(Add(Mul(returnResult.score, Rat(6, 10)),
                     Mul(paramOut.res.score, Rat(4, 10))),
                 paramOut.ctx,
                 returnResult.matchedParts \o paramOut.res.matchedParts,
                 calls \cup paramOut.calls)

\* How unifyFunctionTypes combines the return type's result with the
\* parameters' result.
CombineFunction(returnResult, paramOut, calls) ==
  Matched(Add(Mul(returnResult.score, Rat(6, 10)),
              Mul(paramOut.res.score, Rat(4, 10))),
          paramOut.ctx,
          returnResult.matchedParts \o paramOut.res.matchedParts,
          calls \cup paramOut.calls)

unifyFunctionTypes(q, t, ctx, depth) ==
  LET queryChildren == ChildrenOrEmpty(q)
      targetChildren == ChildrenOrEmpty(t)
  IN
  IF Len(queryChildren) = 0 \/ Len(targetChildren) = 0 THEN Failed(ctx, {})
  ELSE
    LET queryReturn == queryChildren[Len(queryChildren)]
        targetReturn == targetChildren[Len(targetChildren)]
        r == unifyTypes(queryReturn, targetReturn, ctx, NestedDepth(depth))
        cs == r.calls \cup {<<depth, NestedDepth(depth)>>}
        queryParams == SubSeq(queryChildren, 1, Len(queryChildren) - 1)
        targetParams == SubSeq(targetChildren, 1, Len(targetChildren) - 1)
    IN
    IF ~r.res.matches THEN Failed(r.ctx, cs)
    ELSE IF Len(queryParams) = 0 THEN
      Matched(Mul(r.res.score, Rat(9, 10)), r.ctx, r.res.matchedParts, cs)
    ELSE
      CombineFunction(r.res,
                      unifyParameters(queryParams, targetParams, r.ctx, depth),
                      cs)

\* The 1.1 bonus of unifyParameters.
ParametersBonus(score, queryParams, targetParams, matchCount) ==
  IF Len(queryParams) = Len(targetParams) /\ matchCount = Len(queryParams)
    THEN MathMin(Num(100), Mul(score, Rat(11, 10)))
    ELSE score

\* The for-loop of unifyParameters, from parameter i (1-based) on.
ParametersLoop(qp, tp, i, ctx, depth, totalScore, matchCount, matchedParts, calls) ==
  IF i > Len(qp) \/ i > Len(tp) THEN
    IF matchCount = 0 THEN Matched(Num(50), ctx, <<>>, calls)
    ELSE Matched(ParametersBonus(Div(totalScore, matchCount), qp, tp, matchCount),
                 ctx, matchedParts, calls)
  ELSE
    LET r == unifyTypes(qp[i], tp[i], ctx, NestedDepth(depth))
        cs == calls \cup r.calls \cup {<<depth, NestedDepth(depth)>>}
    IN  IF r.res.matches THEN
          ParametersLoop(qp, tp, i + 1, r.ctx, depth,
                         Add(totalScore, r.res.score), matchCount + 1,
                         matchedParts \o r.res.matchedParts, cs)
        ELSE
          ParametersLoop(qp, tp, i + 1, r.ctx, depth,
                         Add(totalScore, Num(20)), matchCount + 1,
                         matchedParts, cs)

unifyParameters(queryParams, targetParams, ctx, depth) ==
  IF Len(queryParams) = 0 THEN Matched(Num(70), ctx, <<>>, {})
  ELSE ParametersLoop(queryParams, targetParams, 1, ctx, depth,
                      Num(0), 0, <<>>, {})

\* An arity rule that takes nothing off.
ArityPenalty_None(score, qa, ta) == score

\* The 0.8 penalty of unifyTypeArguments for argument lists of different
\* lengths.
ArityPenalty(score, qa, ta) ==
  IF Len(qa) # Len(ta) THEN Mul(score, Rat(8, 10)) ELSE score

\* The for-loop of unifyTypeArguments, from argument i (1-based) on.
TypeArgumentsLoop(qa, ta, i, minLen, ctx, depth, totalScore, matchedParts, calls) ==
  IF i > minLen THEN
    Matched(ArityPenalty(Div(totalScore, minLen), qa, ta),
            ctx, matchedParts, calls)
  ELSE
    LET r == unifyTypes(qa[i], ta[i], ctx, NestedDepth(depth))
        cs == calls \cup r.calls \cup {<<depth, NestedDepth(depth)>>}
    IN  IF ~r.res.matches THEN Failed(r.ctx, cs)
        ELSE TypeArgumentsLoop(qa, ta, i + 1, minLen, r.ctx, depth,
                               Add(totalScore, r.res.score),
                               matchedParts \o r.res.matchedParts, cs)

unifyTypeArguments(queryArgs, targetArgs, ctx, depth) ==
  LET minLen == IF Len(queryArgs) < Len(targetArgs)
                  THEN Len(queryArgs) ELSE Len(targetArgs)
  IN
  IF minLen = 0 THEN
    IF Len(queryArgs) = 0 /\ Len(targetArgs) = 0
      THEN Matched(Num(100), ctx, <<>>, {})
      ELSE Matched(Num(60), ctx, <<>>, {})
  ELSE TypeArgumentsLoop(queryArgs, targetArgs, 1, minLen, ctx, depth,
                         Num(0), <<>>, {})

\* The inner for-loop of unifyUnionTypes: the best match of queryMember among
\* the target members from j (1-based) on, each tried on a copy of the Map.
UnionInnerLoop(queryMember, tc, j, ctx, depth, bestScore, bestMatch, calls) ==
  IF j > Len(tc) THEN [bestMatch |-> bestMatch, calls |-> calls]
  ELSE
    LET r == unifyTypes(queryMember, tc[j], ctx, NestedDepth(depth))
        cs == calls \cup r.calls \cup {<<depth, NestedDepth(depth)>>}
    IN  IF r.res.matches /\ Gt(r.res.score, bestScore)
          THEN UnionInnerLoop(queryMember, tc, j + 1, ctx, depth,
                              r.res.score, r.res, cs)
          ELSE UnionInnerLoop(queryMember, tc, j + 1, ctx, depth,
                              bestScore, bestMatch, cs)

\* The outer for-loop of unifyUnionTypes, from query member i (1-based) on.
UnionOuterLoop(qc, tc, i, ctx, depth, totalScore, matchedParts, calls) ==
  IF i > Len(qc) THEN
    Matched(Div(totalScore, Len(qc)), ctx, matchedParts, calls)
  ELSE
    LET best == UnionInnerLoop(qc[i], tc, 1, ctx, depth, Num(0), noMatch, {})
        cs == calls \cup best.calls
    IN  IF ~best.bestMatch.matches THEN Failed(ctx, cs)
        ELSE UnionOuterLoop(qc, tc, i + 1, ctx, depth,
                            Add(totalScore, best.bestMatch.score),
                            matchedParts \o best.bestMatch.matchedParts, cs)

unifyUnionTypes(q, t, ctx, depth) ==
  LET queryChildren == ChildrenOrEmpty(q)
      targetChildren == ChildrenOrEmpty(t)
  IN
  IF Len(queryChildren) = 0 \/ Len(targetChildren) = 0 THEN Failed(ctx, {})
  ELSE UnionOuterLoop(queryChildren, targetChildren, 1, ctx, depth,
                      Num(0), <<>>, {})

-----------------------------------------------------------------------------
(* Search orchestration (type-search.ts)                                   *)

\* No query counts as complex.
isComplexType_Never(type) == FALSE

\* isComplexType(type)
isComplexType(type) == type.kind \in {"generic", "effect", "function"}

\* signatureToTypeNode(sig)
signatureToTypeNode(sig) ==
  ChildrenNode("function", sig.raw,
               [k \in 1..Len(sig.parameters) |-> sig.parameters[k].type]
                 \o <<sig.returnType>>)

\* A return-type-only match kept at its full score.
ReturnTypeScore_Undiscounted(score) == score

\* The score a return-type-only match is kept with.
ReturnTypeScore(score) == Mul(score, Rat(75, 100))

\* A parameter-only match kept at its full score.
ParameterScore_Undiscounted(score) == score

\* The score a parameter-only match is kept with.
ParameterScore(score) == Mul(score, Rat(6, 10))

\* { ...result, score }
WithScore(res, score) == [res EXCEPT !.score = score]

\* A test without the score threshold.
Qualifies_AnyMatch(matchResult) == matchResult.matches

\* The test a match result must pass to be pushed onto the results.
Qualifies(matchResult) ==
  matchResult.matches /\ Gt(matchResult.score, Num(30))

\* A comparator that also moves a past an element of equal score.
SortsBefore_OrEqual(a, b) == Ge(a.matchResult.score, b.matchResult.score)

\* The comparator (a, b) => b.matchResult.score - a.matchResult.score is
\* negative: a sorts before b.
SortsBefore(a, b) == Gt(a.matchResult.score, b.matchResult.score)

\* Array.prototype.sort is stable: x moves left past exactly the elements it
\* sorts before.
RECURSIVE InsertSorted(_, _)
InsertSorted(sorted, x) ==
  IF sorted = <<>> THEN <<x>>
  ELSE IF SortsBefore(x, sorted[Len(sorted)])
    THEN Append(InsertSorted(SubSeq(sorted, 1, Len(sorted) - 1), x),
                sorted[Len(sorted)])
    ELSE Append(sorted, x)

RECURSIVE SortFrom(_, _, _)
SortFrom(arr, i, sorted) ==
  IF i > Len(arr) THEN sorted
  ELSE SortFrom(arr, i + 1, InsertSorted(sorted, arr[i]))

\* results.sort((a, b) => b.matchResult.score - a.matchResult.score)
sortResults(arr) == SortFrom(arr, 1, <<>>)

\* A slice that ignores its end.
sliceResults_Whole(arr, end) == arr

\* Array.prototype.slice(0, end): a negative end counts from the end of the
\* array.
sliceResults(arr, end) ==
  LET final == IF end < 0
                 THEN (IF Len(arr) + end < 0 THEN 0 ELSE Len(arr) + end)
                 ELSE (IF end > Len(arr) THEN Len(arr) ELSE end)
  IN  SubSeq(arr, 1, final)

\* One logged unifyTypes call of matchFunction: for which entry (its index in
\* the catalog), under which strategy, against which parameter (0: none), with
\* which context, and the call's verdict and score.
Attempt(entry, strategy, param, context, res) ==
  [entry |-> entry, strategy |-> strategy, param |-> param,
   context |-> context, matches |-> res.matches, score |-> res.score]

-----------------------------------------------------------------------------
(* Catalog fixtures, built the way the tests build them                    *)
(* (integration.test.ts: typeVar, effect, option, fn, primitive,           *)
(* mockFunction, MOCK_FUNCTIONS)                                           *)

S_Option == <<"O","p","t","i","o","n">>
S_Array == <<"A","r","r","a","y">>
S_Foo == <<"F","o","o">>
S_NoSuchElementException ==
  <<"N","o","S","u","c","h","E","l","e","m","e","n","t",
    "E","x","c","e","p","t","i","o","n">>

\* texts.join(sep)
RECURSIVE Join(_, _)
Join(texts, sep) ==
  IF texts = <<>> THEN <<>>
  ELSE IF Len(texts) = 1 THEN texts[1]
  ELSE texts[1] \o sep \o Join(Tail(texts), sep)

TextsOf(nodes) == [k \in 1..Len(nodes) |-> nodes[k].text]

typeVar(name) == TypeVariableNode(name)

primitive(name) == LeafNode("primitive", name)

\* A generic node with its text rendered as Name<a, b, ...>.
generic(kind, name, args) ==
  GenericNode(kind,
              name \o <<"<">> \o Join(TextsOf(args), <<",", " ">>) \o <<">">>,
              name, args)

effect(a, e, r) == generic("effect", S_Effect, <<a, e, r>>)

option(a) == generic("generic", S_Option, <<a>>)

fn(params, ret) ==
  ChildrenNode("function",
               <<"(">> \o Join(TextsOf(params), <<",", " ">>)
                 \o <<")", " ", "=", ">", " ">> \o ret.text,
               params \o <<ret>>)

DigitSeq == <<"0","1","2","3","4","5","6","7","8","9">>

\* `arg${i}`
ArgName(i) == <<"a", "r", "g", DigitSeq[i + 1]>>

\* The ParsedSignature mockFunction builds.
mockSignature(params, returnType) ==
  [raw |-> <<"(">>
             \o Join([k \in 1..Len(params) |->
                        ArgName(k - 1) \o <<":", " ">> \o params[k].text],
                     <<",", " ">>)
             \o <<")", " ", "=", ">", " ">> \o returnType.text,
   typeParameters |-> <<>>,
   parameters |-> [k \in 1..Len(params) |->
                     [name |-> ArgName(k - 1), type |-> params[k],
                      optional |-> FALSE]],
   returnType |-> returnType]

\* A FunctionEntry with a parsed signature (the fields the search reads).
mockFunction(id, params, returnType) ==
  [id |-> id, hasSignature |-> TRUE,
   signatureParsed |-> mockSignature(params, returnType)]

\* A FunctionEntry whose optional signatureParsed is absent.
unparsedFunction(id) ==
  [id |-> id, hasSignature |-> FALSE,
   signatureParsed |-> mockSignature(<<>>, Null)]

TV_A == typeVar(<<"A">>)
TV_B == typeVar(<<"B">>)
TV_E == typeVar(<<"E">>)
TV_R == typeVar(<<"R">>)
TV_X == typeVar(<<"X">>)

\* What the indexer's default branch builds for an instantiated alias of an
\* object type: the type's text, the symbol's name, no typeArguments.
AliasOptionNode ==
  TypeNode("generic", option(TV_A).text, <<"_", "_", "t", "y", "p", "e">>,
           FALSE, <<>>, FALSE, <<>>, FALSE, FALSE)

\* The tuple type [(number) => Foo<X>].
TupleOfFunctionNode ==
  LET f == fn(<<primitive(S_number)>>, generic("generic", S_Foo, <<TV_X>>))
  IN  ChildrenNode("tuple", <<"[">> \o f.text \o <<"]">>, <<f>>)

\* The empty tuple type [].
EmptyTupleNode == ChildrenNode("tuple", <<"[", "]">>, <<>>)

\* The FunctionEntry objects catalogs are cut from: MOCK_FUNCTIONS and entries
\* of the other shapes an index holds.  An array of entries holds references
\* to these objects: a reference is the object's index in the pool.
Pool ==
  << mockFunction("Effect.succeed", <<TV_A>>,
                  effect(TV_A, primitive(S_never), primitive(S_never))),
     mockFunction("Function.constant", <<TV_A>>, fn(<<>>, TV_A)),
     mockFunction("Effect.fail", <<TV_E>>,
                  effect(primitive(S_never), TV_E, primitive(S_never))),
     mockFunction("Effect.map",
                  <<effect(TV_A, TV_E, TV_R), fn(<<TV_A>>, TV_B)>>,
                  effect(TV_B, TV_E, TV_R)),
     unparsedFunction("Legacy.untyped"),
     mockFunction("Effect.fromOption", <<option(TV_A)>>,
                  effect(TV_A, typeVar(S_NoSuchElementException),
                         primitive(S_never))),
     mockFunction("Boxed.empty", <<>>, AliasOptionNode),
     mockFunction("Option.some", <<TV_A>>, option(TV_A)),
     mockFunction("Option.none", <<>>, option(primitive(S_never))),
     mockFunction("Option.map", <<option(TV_A), fn(<<TV_A>>, TV_B)>>,
                  option(TV_B)),
     mockFunction("Array.map",
                  <<generic("generic", S_Array, <<TV_A>>), fn(<<TV_A>>, TV_B)>>,
                  generic("generic", S_Array, <<TV_B>>)),
     mockFunction("Function.identity", <<TV_A>>, TV_A),
     mockFunction("Pair.second", <<TV_A, primitive(S_string)>>,
                  primitive(S_void)),
     mockFunction("String.repeat", <<primitive(S_number), primitive(S_string)>>,
                  primitive(S_void)),
     mockFunction("Tuple.apply", <<TupleOfFunctionNode>>, primitive(S_void)),
     mockFunction("String.length", <<primitive(S_string)>>,
                  primitive(S_number)),
     mockFunction("Tuple.empty", <<>>, EmptyTupleNode),
     mockFunction("Tuple.absurd", <<EmptyTupleNode>>, TV_A) >>

\* The longest catalog of the model.
MaxCatalog == 3

\* Catalogs: the runs of at most MaxCatalog consecutive entries of the pool.
Catalogs ==
  {[k \in 1..w[2] |-> w[1] + k - 1] :
     w \in {v \in (1..Len(Pool)) \X (0..MaxCatalog) :
              v[1] + v[2] - 1 <= Len(Pool)}}

\* limit: number = 50
DefaultLimit == 50

\* The largest explicit limit of the model, and how far below zero limits go.
MaxLimit == 2
MaxNegLimit == 1

Limits == ((0 - MaxNegLimit)..MaxLimit) \cup {DefaultLimit}

Q_Empty == <<>>
Q_Blank == <<" ", "\t", " ">>
Q_EffectAER == S_Effect \o <<"<", "A", ",", " ", "E", ",", " ", "R", ">">>
Q_EffectA == S_Effect \o <<"<", "A", ">">>
Q_OptionA == S_Option \o <<"<", "A", ">">>
Q_optionB == toLowerCase(S_Option) \o <<"<", "B", ">">>
Q_StreamAER == S_Stream \o <<"<", "A", ",", " ", "E", ",", " ", "R", ">">>
Q_AToEffectA == <<"A", " ", "=", ">", " ">> \o S_Effect \o <<"<", "A", ">">>
Q_AArrowEffectAER == <<"A", " ", "-", ">", " ">> \o Q_EffectAER
Q_OptionAToEffectA == Q_OptionA \o <<" ", "=", ">", " ">> \o S_Effect \o <<"<", "A", ">">>
Q_Wildcard == <<" ", "*">>
Q_A == <<"A">>
Q_string == S_string
Q_number == <<"N">> \o Tail(S_number)
Q_TupleOfFunction ==
  <<"[", "(">> \o S_string \o <<")", " ", "=", ">", " ">> \o S_Foo
    \o <<"<", " ", ">", "]">>
Q_EmptyTuple == <<"[", "]">>
Q_EmptyTupleToA == <<"[", "]", " ", "=", ">", " ", "A">>
Q_StringToNumber == S_string \o <<" ", "=", ">", " ">> \o S_number
Q_AOrB == <<"A", " ", "|", " ", "B">>

Queries ==
  {Q_Empty, Q_Blank, Q_EffectAER, Q_EffectA, Q_OptionA, Q_optionB, Q_StreamAER,
   Q_AToEffectA, Q_AArrowEffectAER, Q_OptionAToEffectA, Q_Wildcard, Q_A,
   Q_string, Q_number, Q_TupleOfFunction, Q_EmptyTuple, Q_EmptyTupleToA,
   Q_StringToNumber, Q_AOrB}

-----------------------------------------------------------------------------
(* searchByType and matchFunction, step by step                            *)

\* The entry the for-loop is at, and its signatureParsed.
entry == Pool[functions[idx]]

signature == entry.signatureParsed

\* searchByType(q, fs, n) is called: the query is parsed, and an unparsable
\* query returns [] at once.
Call(q, fs, n) ==
  /\ pc = "idle"
  /\ query' = q
  /\ functions' = fs
  /\ limit' = n
  /\ queryType' = parseTypeQuery(q)
  /\ results' = <<>>
  /\ returned' = <<>>
  /\ IF parseTypeQuery(q) = Null
       THEN pc' = "done" /\ idx' = 0
       ELSE pc' = "loop" /\ idx' = 1
  /\ UNCHANGED <<pidx, mres, attempts, uq, ut, ub, ud, ures,
                 parseVars, interleavedVars>>

\* for (const entry of functions): an entry without signatureParsed is
\* skipped.
SkipEntry ==
  /\ pc = "loop"
  /\ idx <= Len(functions)
  /\ ~entry.hasSignature
  /\ idx' = idx + 1
  /\ UNCHANGED <<pc, query, functions, limit, queryType, pidx, mres, results,
                 returned, attempts, uq, ut, ub, ud, ures,
                 parseVars, interleavedVars>>

\* matchFunction, first strategy: the full function type.
TryFull ==
  /\ pc = "loop"
  /\ idx <= Len(functions)
  /\ entry.hasSignature
  /\ LET out == unifyTypes(queryType, signatureToTypeNode(signature),
                           createContext, 0)
     IN  /\ attempts' = Append(attempts,
                               Attempt(idx, "full", 0, createContext, out.res))
         /\ IF out.res.matches
              THEN mres' = out.res /\ pc' = "filter"
              ELSE mres' = mres /\ pc' = "return"
  /\ UNCHANGED <<query, functions, limit, queryType, idx, pidx, results,
                 returned, uq, ut, ub, ud, ures,
                 parseVars, interleavedVars>>

\* matchFunction, second strategy: the return type alone.  When it fails, a
\* complex query makes matchFunction return noMatch().
TryReturn ==
  /\ pc = "return"
  /\ LET out == unifyTypes(queryType, signature.returnType, createContext, 0)
     IN  /\ attempts' = Append(attempts,
                               Attempt(idx, "return", 0, createContext, out.res))
         /\ IF out.res.matches THEN
              /\ mres' = WithScore(out.res, ReturnTypeScore(out.res.score))
              /\ pc' = "filter"
              /\ pidx' = pidx
            ELSE IF ~isComplexType(queryType) THEN
              /\ mres' = mres
              /\ pc' = "param"
              /\ pidx' = 1
            ELSE
              /\ mres' = noMatch
              /\ pc' = "filter"
              /\ pidx' = pidx
  /\ UNCHANGED <<query, functions, limit, queryType, idx, results, returned,
                 uq, ut, ub, ud, ures,
                 parseVars, interleavedVars>>

\* matchFunction, third strategy: the next declared parameter; the first one
\* that matches is returned.
TryParam ==
  /\ pc = "param"
  /\ pidx <= Len(signature.parameters)
  /\ LET out == unifyTypes(queryType, signature.parameters[pidx].type,
                           createContext, 0)
     IN  /\ attempts' = Append(attempts,
                               Attempt(idx, "param", pidx, createContext, out.res))
         /\ IF out.res.matches THEN
              /\ mres' = WithScore(out.res, ParameterScore(out.res.score))
              /\ pc' = "filter"
              /\ pidx' = pidx
            ELSE
              /\ mres' = mres
              /\ pc' = "param"
              /\ pidx' = pidx + 1
  /\ UNCHANGED <<query, functions, limit, queryType, idx, results, returned,
                 uq, ut, ub, ud, ures,
                 parseVars, interleavedVars>>

\* matchFunction: no parameter is left, it returns noMatch().
NoParamLeft ==
  /\ pc = "param"
  /\ pidx > Len(signature.parameters)
  /\ mres' = noMatch
  /\ pc' = "filter"
  /\ UNCHANGED <<query, functions, limit, queryType, idx, pidx, results,
                 returned, attempts, uq, ut, ub, ud, ures,
                 parseVars, interleavedVars>>

\* Back in searchByType: the entry is pushed if its match qualifies, and the
\* loop moves on.
Filter ==
  /\ pc = "filter"
  /\ results' = IF Qualifies(mres)
                  THEN Append(results,
                              [entry |-> functions[idx], matchResult |-> mres])
                  ELSE results
  /\ idx' = idx + 1
  /\ pc' = "loop"
  /\ UNCHANGED <<query, functions, limit, queryType, pidx, mres, returned,
                 attempts, uq, ut, ub, ud, ures,
                 parseVars, interleavedVars>>

\* The loop is over: sort, slice, return.
Finish ==
  /\ pc = "loop"
  /\ idx > Len(functions)
  /\ returned' = sliceResults(sortResults(results), limit)
  /\ pc' = "done"
  /\ UNCHANGED <<query, functions, limit, queryType, idx, pidx, mres, results,
                 attempts, uq, ut, ub, ud, ures,
                 parseVars, interleavedVars>>

Init ==
  /\ pc = "idle"
  /\ query = <<>>
  /\ functions = <<>>
  /\ limit = 0
  /\ queryType = Null
  /\ idx = 0
  /\ pidx = 0
  /\ mres = noMatch
  /\ results = <<>>
  /\ returned = <<>>
  /\ attempts = <<>>
  /\ uq = Null
  /\ ut = Null
  /\ ub = EmptyMap
  /\ ud = 0
  /\ ures = Failed(EmptyMap, {})
  /\ pquery = <<>>
  /\ presult = Null
  /\ ptext = <<>>
  /\ pcaller = <<>>
  /\ inv = <<>>
  /\ tables = <<>>

Next ==
  \/ /\ pc = "idle"
     /\ \E q \in Queries, fs \in Catalogs, n \in Limits : Call(q, fs, n)
  \/ SkipEntry
  \/ TryFull
  \/ TryReturn
  \/ TryParam
  \/ NoParamLeft
  \/ Filter
  \/ Finish

Spec == Init /\ [][Next]_vars

-----------------------------------------------------------------------------
(* unifyTypes called directly (it is exported), on small type trees        *)

union(members) ==
  ChildrenNode("union", Join(TextsOf(members), <<" ", "|", " ">>), members)

tuple(elements) ==
  ChildrenNode("tuple",
               <<"[">> \o Join(TextsOf(elements), <<",", " ">>) \o <<"]">>,
               elements)

\* The longest child or argument list of a generated tree.
MaxArity == 2

\* The sequences over S of length at most n.
RECURSIVE SeqsUpTo(_, _)
SeqsUpTo(S, n) ==
  IF n = 0 THEN {<<>>}
  ELSE LET shorter == SeqsUpTo(S, n - 1)
       IN  shorter \cup {Append(x, e) : x \in shorter, e \in S}

\* Every tree of height one over the given leaves: a generic, an effect, a
\* union and a tuple per list, and a function per parameter list and return
\* type.
TreesOver(leaves) ==
  LET lists == SeqsUpTo(leaves, MaxArity)
  IN  {generic("generic", S_Foo, l) : l \in lists}
        \cup {generic("effect", S_Effect, l) : l \in lists}
        \cup {fn(l, r) : l \in lists, r \in leaves}
        \cup {union(l) : l \in lists}
        \cup {tuple(l) : l \in lists}

\* How deep the deepest generated tree nests: enough to pass the depth limit.
MaxNest == 11

\* leaf wrapped in k one-element tuples.
RECURSIVE Nested(_, _)
Nested(k, leaf) == IF k = 0 THEN leaf ELSE tuple(<<Nested(k - 1, leaf)>>)

DeepTrees ==
  {Nested(k, leaf) : k \in (MaxNest - 1)..MaxNest,
                     leaf \in {TV_A, primitive(S_string)}}

\* The primitive node a caller writes with a capital: String.
PrimitiveString == primitive(<<"S">> \o Tail(S_string))

QueryLeaves ==
  {TV_A, TV_B, primitive(S_string), primitive(S_number), PrimitiveString,
   ReferenceNode(S_Foo), WildcardNode,
   LeafNode("literal", <<"1">>), LeafNode("unknown", S_unknown)}

\* A wildcard inside one tuple, and inside as many as reach the depth limit.
WildcardTrees == {Nested(k, WildcardNode) : k \in {1, MaxNest - 1}}

\* Constructors written otherwise than the targets': foo<...> in lower case,
\* and Effect<...> as a plain generic node.
GenericVariants ==
  {generic("generic", name, l) :
     name \in {toLowerCase(S_Foo), S_Effect},
     l \in SeqsUpTo({TV_A, primitive(S_string)}, MaxArity)}

\* Unions with a member that is not a leaf: the empty tuple, as "[] | string"
\* parses.
UnionVariants == {union(<<tuple(<<>>), primitive(S_string)>>)}

\* (Foo<A, string>, A) => string and (Foo<number, number>, string) => string:
\* a parameter with type arguments, and a parameter after it.
Q_GenericThenVariable ==
  fn(<<generic("generic", S_Foo, <<TV_A, primitive(S_string)>>), TV_A>>,
     primitive(S_string))

T_GenericThenString ==
  fn(<<generic("generic", S_Foo, <<primitive(S_number), primitive(S_number)>>),
       primitive(S_string)>>,
     primitive(S_string))

\* Trees with two type variables.
TwoVariableTrees ==
  {tuple(<<TV_B, TV_A>>), generic("generic", S_Foo, <<TV_A, TV_B>>),
   fn(<<TV_A, TV_B>>, TV_A)}

QueryTrees ==
  QueryLeaves \cup TreesOver({TV_A, primitive(S_string)}) \cup DeepTrees
    \cup WildcardTrees \cup GenericVariants \cup UnionVariants
    \cup {Q_GenericThenVariable} \cup TwoVariableTrees

TargetLeaves ==
  {TV_A, TV_B, primitive(S_string), primitive(S_number), PrimitiveString,
   ReferenceNode(S_Foo),
   LeafNode("literal", <<"1">>), LeafNode("unknown", S_unknown),
   AliasOptionNode}

TargetTrees ==
  TargetLeaves \cup TreesOver({primitive(S_string), primitive(S_number)})
    \cup DeepTrees \cup UnionVariants \cup {T_GenericThenString}

\* How far below the depth limit a direct call may start (besides at 0).
DepthMargin == 2

Depths == {0} \cup ((MAX_UNIFY_DEPTH - DepthMargin)..(MAX_UNIFY_DEPTH + 1))

\* The binding tables a direct call is given.
BindingTables ==
  {EmptyMap,
   MapSet(EmptyMap, <<"A">>, primitive(S_string)),
   MapSet(EmptyMap, <<"A">>, TV_B),
   MapSet(EmptyMap, <<"A">>, generic("generic", S_Foo, <<primitive(S_number)>>)),
   MapSet(EmptyMap, <<"A">>, generic("generic", S_Option, <<primitive(S_string)>>)),
   MapSet(EmptyMap, <<"A">>, tuple(<<primitive(S_number)>>))}

\* unifyTypes(q, t, { bindings: b }, d) is called and returns.
UnifyCall(q, t, b, d) ==
  /\ pc = "idle"
  /\ pc' = "unified"
  /\ uq' = q
  /\ ut' = t
  /\ ub' = b
  /\ ud' = d
  /\ ures' = unifyTypes(q, t, b, d)
  /\ UNCHANGED <<searchVars, parseVars, interleavedVars>>

NextUnify ==
  /\ pc = "idle"
  /\ \E q \in QueryTrees, t \in TargetTrees, b \in BindingTables,
        d \in Depths : UnifyCall(q, t, b, d)

SpecUnify == Init /\ [][NextUnify]_vars

-----------------------------------------------------------------------------
(* parseTypeQuery called directly (it is exported), and the recursive      *)
(* parseType calls it leads to                                             *)

\* The characters short queries are written with.
QueryAlphabet ==
  {"A", "b", "(", ")", "<", ">", "[", "]", "|", "=", "-", ",", "*", " "}

\* The longest query written over the whole alphabet.
MaxQueryLen == 3

ShortQueries == SeqsUpTo(QueryAlphabet, MaxQueryLen)

\* What stands left and right of an arrow in the longer queries.
ArrowSides ==
  {<<"A">>, <<"B", "1">>, S_string, <<"F", "<", "A", ">">>, <<"(", "A", ")">>,
   <<"(", "A", ",", " ", "B", ")">>, <<"[", "A", "]">>, <<"A", " ", "|", " ", "B">>,
   <<"f", "(", "a">>, <<"b", ")">>, <<"A", ">">>, <<"<", "A">>, <<"[", "A">>,
   <<"-", ">", " ", "B">>, <<"A", " ", "-", ">">>, <<>>}

\* The white space that delimits an arrow in the longer queries.
ArrowGaps == {<<" ">>, <<" ", " ">>, <<"\t">>}

\* The longer queries: two sides around a Haskell or a TypeScript arrow.
ArrowQueries ==
  {l \o g \o a \o h \o r :
     l \in ArrowSides, r \in ArrowSides, g \in ArrowGaps, h \in ArrowGaps,
     a \in {<<"-", ">">>, <<"=", ">">>}}

\* Queries with a list inside a list.
Q_TupleInTuple == <<"[", "[", "A", ",", " ", "B", "]", ",", " ", "C", "]">>
Q_TupleParameter ==
  <<"(", "[", "A", ",", " ", "B", "]", ",", " ", "C", ")", " ", "=", ">", " ", "D">>
Q_GenericInTuple == <<"[", "F", "<", "A", ",", " ", "B", ">", ",", " ", "C", "]">>
Q_GroupInGeneric == <<"F", "<", "(", "A", ",", " ", "B", ")", ",", " ", "C", ">">>
Q_TupleInGeneric == <<"F", "<", "[", "A", ",", " ", "B", "]", ">">>
Q_BareParameters == <<"[", "A", ",", " ", "B", "]", ",", " ", "C", " ", "=", ">", " ", "D">>

NestedListQueries ==
  {Q_TupleInTuple, Q_TupleParameter, Q_GenericInTuple, Q_GroupInGeneric,
   Q_TupleInGeneric, Q_BareParameters}

\* Queries with an arrow inside a group.
Q_ArrowInGeneric ==
  <<"F", "<", "A", " ", "=", ">", " ", "B", ">", " ", "=", ">", " ", "C">>
Q_ArrowsInGeneric ==
  <<"F", "<", "A", " ", "=", ">", " ", "B", " ", "=", ">", " ", "C", ">">>
Q_ArrowInTuple == <<"[", "A", " ", "=", ">", " ", "B", "]">>
Q_GenericsAroundArrow ==
  <<"F", "<", "A", ">", " ", "=", ">", " ", "F", "<", "B", ">">>

NestedArrowQueries ==
  {Q_ArrowInGeneric, Q_ArrowsInGeneric, Q_ArrowInTuple, Q_GenericsAroundArrow}

\* Identifiers of letters and digits, alone and as a type argument.
Identifiers ==
  {<<"E", "1">>, <<"A", "1", "2">>, <<"A", "B">>, <<"A", "1", "b">>,
   <<"a", "1">>, <<"T", "0", "0", "7">>}

IdentifierQueries ==
  Identifiers \cup {<<"F", "<">> \o t \o <<">">> : t \in Identifiers}

\* Unions of three and four members, and unions beside and inside groups.
Q_UnionChain == <<"A", " ", "|", " ", "B", " ", "|", " ", "C">>
Q_LongUnionChain == Q_UnionChain \o <<"|", "D">>
Q_UnionInTuple == <<"[", "A", "|", "B", "]", " ", "|", " ", "C">>
Q_UnionAfterArrowGroup ==
  <<"F", "<", "A", " ", "=", ">", " ", "B", ">", " ", "|", " ", "C">>

UnionQueries ==
  {Q_UnionChain, Q_LongUnionChain, Q_UnionInTuple, Q_UnionAfterArrowGroup}

ParseQueries ==
  ShortQueries \cup ArrowQueries \cup Queries \cup NestedListQueries
    \cup NestedArrowQueries \cup IdentifierQueries \cup UnionQueries

\* parseTypeQuery(q) is called and returns; what parseType was first called
\* with is kept to follow the recursion.
ParseQuery(q) ==
  /\ pc = "idle"
  /\ pquery' = q
  /\ presult' = parseTypeQuery(q)
  /\ pcaller' = <<>>
  /\ IF trim(q) = <<>>
       THEN pc' = "parsed" /\ ptext' = <<>>
       ELSE pc' = "parsing" /\ ptext' = normalizeArrows(trim(q))
  /\ UNCHANGED <<searchVars, unifyVars, interleavedVars>>

\* One of the recursive calls the parseType call at hand makes is followed.
Descend ==
  /\ pc \in {"parsing", "nested"}
  /\ trim(ptext) # <<>>
  /\ \E k \in 1..Len(SubTexts(trim(ptext))) :
       ptext' = SubTexts(trim(ptext))[k]
  /\ pcaller' = trim(ptext)
  /\ pc' = "nested"
  /\ UNCHANGED <<pquery, presult, searchVars, unifyVars, interleavedVars>>

NextParse ==
  \/ /\ pc = "idle"
     /\ \E q \in ParseQueries : ParseQuery(q)
  \/ Descend

SpecParse == Init /\ [][NextParse]_vars

-----------------------------------------------------------------------------
(* searchByType and matchFunction as functions of their arguments          *)

\* The for-loop of matchFunction over signature.parameters, from the k-th.
RECURSIVE ParamLoop(_, _, _)
ParamLoop(q, sig, k) ==
  IF k > Len(sig.parameters) THEN noMatch
  ELSE LET paramMatch ==
             unifyTypes(q, sig.parameters[k].type, createContext, 0).res
       IN  IF paramMatch.matches
             THEN WithScore(paramMatch, ParameterScore(paramMatch.score))
             ELSE ParamLoop(q, sig, k + 1)

matchFunction(q, sig) ==
  LET fullMatch ==
        unifyTypes(q, signatureToTypeNode(sig), createContext, 0).res
      returnMatch == unifyTypes(q, sig.returnType, createContext, 0).res
  IN  IF fullMatch.matches THEN fullMatch
      ELSE IF returnMatch.matches
        THEN WithScore(returnMatch, ReturnTypeScore(returnMatch.score))
      ELSE IF ~isComplexType(q) THEN ParamLoop(q, sig, 1)
      ELSE noMatch

\* The for-loop of searchByType over the catalog fs, from its k-th entry.
RECURSIVE SearchLoop(_, _, _, _)
SearchLoop(qt, fs, k, res) ==
  IF k > Len(fs) THEN res
  ELSE IF ~Pool[fs[k]].hasSignature THEN SearchLoop(qt, fs, k + 1, res)
  ELSE LET matchResult == matchFunction(qt, Pool[fs[k]].signatureParsed)
       IN  SearchLoop(qt, fs, k + 1,
                      IF Qualifies(matchResult)
                        THEN Append(res, [entry |-> fs[k],
                                          matchResult |-> matchResult])
                        ELSE res)

searchByType(q, fs, n) ==
  IF parseTypeQuery(q) = Null THEN <<>>
  ELSE sliceResults(sortResults(SearchLoop(parseTypeQuery(q), fs, 1, <<>>)), n)

-----------------------------------------------------------------------------
(* Several searchByType invocations over one catalog, their steps          *)
(* interleaved; the Maps that createContext() builds live in a heap        *)

\* How many invocations run side by side.
MaxInvocations == 2

\* The length of the catalog they share.
MaxSharedCatalog == 2

\* The catalogs shared: from Effect.map, Legacy.untyped, Effect.fromOption,
\* Boxed.empty or Option.some on.
SharedCatalogs ==
  {fs \in Catalogs : Len(fs) = MaxSharedCatalog /\ fs[1] \in 4..8}

SharedQueries == {Q_string, Q_OptionA, Q_AToEffectA}

SharedLimits == {1, DefaultLimit}

\* The locals of one invocation: those of searchByType and matchFunction,
\* the Map handed to the unifyTypes call at hand (ctx, its place in the
\* heap; <<>>: none), and whether another invocation held a Map of its own
\* while this one unified (beside).
Frame(q, n) ==
  [pc |-> IF parseTypeQuery(q) = Null THEN "done" ELSE "loop",
   query |-> q, limit |-> n, queryType |-> parseTypeQuery(q),
   idx |-> 1, pidx |-> 0, ctx |-> <<>>, mres |-> noMatch,
   results |-> <<>>, returned |-> <<>>, beside |-> FALSE]

\* new Map() in createContext, evaluated by invocation i: a Map no one else
\* holds, at a place of the heap named after i and the Maps i built before.
NewTable_Shared(heap, i) == <<0, 1>>

NewTable(heap, i) ==
  <<i, Cardinality({id \in DOMAIN heap : id[1] = i}) + 1>>

\* The catalog is built, once.
Load(fs) ==
  /\ pc = "idle"
  /\ functions' = fs
  /\ pc' = "serving"
  /\ UNCHANGED <<query, limit, queryType, idx, pidx, mres, results, returned,
                 attempts, unifyVars, parseVars, interleavedVars>>

\* A caller invokes searchByType(q, functions, n).
Invoke(q, n) ==
  /\ pc = "serving"
  /\ Len(inv) < MaxInvocations
  /\ inv' = Append(inv, Frame(q, n))
  /\ UNCHANGED <<pc, searchVars, unifyVars, parseVars, tables>>

\* The entry invocation i is at.
EntryOf(i) == Pool[functions[inv[i].idx]]

\* Another invocation holds a Map it has not unified with yet.
OtherHoldsTable(i) ==
  \E j \in (1..Len(inv)) \ {i} : inv[j].pc \in {"full", "return", "param"}

SkipEntryOf(i) ==
  /\ inv[i].pc = "loop"
  /\ inv[i].idx <= Len(functions)
  /\ ~EntryOf(i).hasSignature
  /\ inv' = [inv EXCEPT ![i].idx = @ + 1]
  /\ UNCHANGED <<pc, searchVars, unifyVars, parseVars, tables>>

\* createContext() is evaluated for the unifyTypes call that comes next:
\* the full type, the return type, or the parameter pidx.
CreateContextFor(i) ==
  /\ \/ /\ inv[i].pc = "loop"
        /\ inv[i].idx <= Len(functions)
        /\ EntryOf(i).hasSignature
     \/ inv[i].pc = "return0"
     \/ /\ inv[i].pc = "param0"
        /\ inv[i].pidx <= Len(EntryOf(i).signatureParsed.parameters)
  /\ LET id == NewTable(tables, i)
     IN  /\ tables' = IF MapHas(tables, id) THEN tables
                                            ELSE MapSet(tables, id, createContext)
         /\ inv' = [inv EXCEPT ![i].ctx = id,
                               ![i].pc = CASE inv[i].pc = "loop" -> "full"
                                           [] inv[i].pc = "return0" -> "return"
                                           [] inv[i].pc = "param0" -> "param"]
  /\ UNCHANGED <<pc, searchVars, unifyVars, parseVars>>

\* unifyTypes(query, fullType, ctx) runs on the Map it was given.
UnifyFull(i) ==
  /\ inv[i].pc = "full"
  /\ LET f == inv[i]
         out == unifyTypes(f.queryType,
                           signatureToTypeNode(EntryOf(i).signatureParsed),
                           tables[f.ctx], 0)
     IN  /\ tables' = [tables EXCEPT ![f.ctx] = out.ctx]
         /\ inv' = [inv EXCEPT
              ![i].beside = @ \/ OtherHoldsTable(i),
              ![i].mres = IF out.res.matches THEN out.res ELSE @,
              ![i].pc = IF out.res.matches THEN "filter" ELSE "return0"]
  /\ UNCHANGED <<pc, searchVars, unifyVars, parseVars>>

\* unifyTypes(query, signature.returnType, ctx) runs on the Map it was given.
UnifyReturn(i) ==
  /\ inv[i].pc = "return"
  /\ LET f == inv[i]
         out == unifyTypes(f.queryType, EntryOf(i).signatureParsed.returnType,
                           tables[f.ctx], 0)
     IN  /\ tables' = [tables EXCEPT ![f.ctx] = out.ctx]
         /\ inv' = [inv EXCEPT
              ![i].beside = @ \/ OtherHoldsTable(i),
              ![i].mres =
                IF out.res.matches
                  THEN WithScore(out.res, ReturnTypeScore(out.res.score))
                ELSE IF ~isComplexType(f.queryType) THEN @
                ELSE noMatch,
              ![i].pidx = IF ~out.res.matches /\ ~isComplexType(f.queryType)
                            THEN 1 ELSE @,
              ![i].pc = IF ~out.res.matches /\ ~isComplexType(f.queryType)
                          THEN "param0" ELSE "filter"]
  /\ UNCHANGED <<pc, searchVars, unifyVars, parseVars>>

\* unifyTypes(query, param.type, ctx) runs on the Map it was given.
UnifyParam(i) ==
  /\ inv[i].pc = "param"
  /\ LET f == inv[i]
         out == unifyTypes(f.queryType,
                           EntryOf(i).signatureParsed.parameters[f.pidx].type,
                           tables[f.ctx], 0)
     IN  /\ tables' = [tables EXCEPT ![f.ctx] = out.ctx]
         /\ inv' = [inv EXCEPT
              ![i].beside = @ \/ OtherHoldsTable(i),
              ![i].mres =
                IF out.res.matches
                  THEN WithScore(out.res, ParameterScore(out.res.score))
                  ELSE @,
              ![i].pidx = IF out.res.matches THEN @ ELSE @ + 1,
              ![i].pc = IF out.res.matches THEN "filter" ELSE "param0"]
  /\ UNCHANGED <<pc, searchVars, unifyVars, parseVars>>

NoParamLeftOf(i) ==
  /\ inv[i].pc = "param0"
  /\ inv[i].pidx > Len(EntryOf(i).signatureParsed.parameters)
  /\ inv' = [inv EXCEPT ![i].mres = noMatch, ![i].pc = "filter"]
  /\ UNCHANGED <<pc, searchVars, unifyVars, parseVars, tables>>

FilterOf(i) ==
  /\ inv[i].pc = "filter"
  /\ inv' = [inv EXCEPT
       ![i].results =
         IF Qualifies(inv[i].mres)
           THEN Append(@, [entry |-> functions[inv[i].idx],
                           matchResult |-> inv[i].mres])
           ELSE @,
       ![i].idx = @ + 1,
       ![i].pc = "loop"]
  /\ UNCHANGED <<pc, searchVars, unifyVars, parseVars, tables>>

FinishOf(i) ==
  /\ inv[i].pc = "loop"
  /\ inv[i].idx > Len(functions)
  /\ inv' = [inv EXCEPT
       ![i].returned = sliceResults(sortResults(inv[i].results), inv[i].limit),
       ![i].pc = "done"]
  /\ UNCHANGED <<pc, searchVars, unifyVars, parseVars, tables>>

NextInterleaved ==
  \/ /\ pc = "idle"
     /\ \E fs \in SharedCatalogs : Load(fs)
  \/ /\ pc = "serving"
     /\ \E q \in SharedQueries, n \in SharedLimits : Invoke(q, n)
  \/ \E i \in 1..Len(inv) : SkipEntryOf(i)
  \/ \E i \in 1..Len(inv) : CreateContextFor(i)
  \/ \E i \in 1..Len(inv) : UnifyFull(i)
  \/ \E i \in 1..Len(inv) : UnifyReturn(i)
  \/ \E i \in 1..Len(inv) : UnifyParam(i)
  \/ \E i \in 1..Len(inv) : NoParamLeftOf(i)
  \/ \E i \in 1..Len(inv) : FilterOf(i)
  \/ \E i \in 1..Len(inv) : FinishOf(i)

SpecInterleaved == Init /\ [][NextInterleaved]_vars

-----------------------------------------------------------------------------
(* Properties of searchByType                                              *)

\* Where the entry of a result stands in the catalog that was searched.
PositionOf(result) == CHOOSE k \in 1..Len(functions) : functions[k] = result.entry

ScoreOf(result) == result.matchResult.score

\* The matching attempts logged for the catalog position p.
MatchingAttempts(p) ==
  {k \in 1..Len(attempts) : attempts[k].entry = p /\ attempts[k].matches}

\* The results pushed for the catalog position p.
ResultsFor(p) == {k \in 1..Len(results) : results[k].entry = functions[p]}

\* The score an attempt's match is kept with, by its strategy.
KeptScore(attempt) ==
  IF attempt.strategy = "full" THEN attempt.score
  ELSE IF attempt.strategy = "return" THEN Mul(attempt.score, Rat(3, 4))
  ELSE Mul(attempt.score, Rat(3, 5))

\* C1: the list searchByType returns is ordered by non-increasing score, and
\* results of equal score stand in the order of their entries in the catalog.
C1_SortedStable ==
  pc = "done" =>
    \A i \in 1..(Len(returned) - 1) :
      /\ Ge(ScoreOf(returned[i]), ScoreOf(returned[i + 1]))
      /\ ScoreOf(returned[i]) = ScoreOf(returned[i + 1])
           => PositionOf(returned[i]) < PositionOf(returned[i + 1])

\* Three results came back: two of equal score, and one that the sort moved
\* ahead of an entry standing before it in the catalog.
C1_TieAndReorder ==
  /\ pc = "done"
  /\ \E i \in 1..(Len(returned) - 1) :
       ScoreOf(returned[i]) = ScoreOf(returned[i + 1])
  /\ \E i \in 1..(Len(returned) - 1) :
       /\ Gt(ScoreOf(returned[i]), ScoreOf(returned[i + 1]))
       /\ PositionOf(returned[i]) > PositionOf(returned[i + 1])

\* What slice(0, n) keeps of len elements.
KeptBySlice(len, n) ==
  IF n >= 0 THEN (IF n < len THEN n ELSE len)
  ELSE (IF len + n > 0 THEN len + n ELSE 0)

\* C2 (amended): for a limit n >= 0 searchByType returns the first n results
\* (all of them when there are fewer), so at most n; for a limit n < 0 it
\* returns all but the last -n results, a length that n does not bound.
C2_LengthBySlice ==
  pc = "done" =>
    /\ Len(returned) = KeptBySlice(Len(results), limit)
    /\ limit >= 0 => Len(returned) <= limit

\* A non-negative limit cut the results short.
C2_Truncated ==
  pc = "done" /\ limit > 0 /\ Len(results) > limit /\ Len(returned) = limit

\* C2 as stated: the returned list is no longer than the limit, whatever the
\* limit's sign.
C2_AtMostLimit == pc = "done" => Len(returned) <= limit

\* C3: every returned result has matches = true and a score in (30, 100];
\* an entry is pushed exactly when the score kept for it, the strategy's
\* discount applied, exceeds 30.
C3_ScoreRange ==
  /\ \A k \in 1..Len(returned) :
       /\ returned[k].matchResult.matches
       /\ Gt(ScoreOf(returned[k]), Num(30))
       /\ Ge(Num(100), ScoreOf(returned[k]))
  /\ \A p \in 1..Len(functions) : \A k \in MatchingAttempts(p) :
       p < idx =>
         /\ ResultsFor(p) # {} <=> Gt(KeptScore(attempts[k]), Num(30))
         /\ \A r \in ResultsFor(p) : ScoreOf(results[r]) = KeptScore(attempts[k])

\* A discounted result came back, and an entry was dropped whose match scored
\* more than 30 before the discount but not after it.
C3_DroppedByDiscount ==
  /\ pc = "done"
  /\ \E k \in 1..Len(returned) : \E a \in MatchingAttempts(PositionOf(returned[k])) :
       attempts[a].strategy # "full"
  /\ \E a \in 1..Len(attempts) :
       /\ attempts[a].matches
       /\ Gt(attempts[a].score, Num(30))
       /\ ~Gt(KeptScore(attempts[a]), Num(30))
       /\ ResultsFor(attempts[a].entry) = {}

\* Whether every character of s is white space.
IsBlank(s) == \A k \in 1..Len(s) : s[k] \in Whitespace

\* C4: for an empty or all-whitespace query the parse is null, and
\* searchByType is done at once with the empty list, no entry unified.
C4_BlankQuery ==
  (pc # "idle" /\ IsBlank(query)) =>
    /\ queryType = Null
    /\ pc = "done"
    /\ returned = <<>>
    /\ attempts = <<>>

\* A whitespace-only query searched a catalog of parsed signatures.
C4_BlankSearched ==
  /\ pc = "done"
  /\ query # <<>>
  /\ IsBlank(query)
  /\ Len(functions) > 1
  /\ \A k \in 1..Len(functions) : Pool[functions[k]].hasSignature
  /\ limit > 0

\* Whether attempt k is the first one logged for its entry.
FirstForEntry(k) == k = 1 \/ attempts[k - 1].entry < attempts[k].entry

\* Whether attempt k is the last one logged for its entry so far.
LastForEntry(k) == k = Len(attempts) \/ attempts[k + 1].entry > attempts[k].entry

\* Whether attempt k follows a failed attempt for the same entry.
AfterFailure(k) ==
  /\ k > 1
  /\ attempts[k - 1].entry = attempts[k].entry
  /\ ~attempts[k - 1].matches

\* C5: for each entry with a parsed signature the first unification is
\* against the function node of its parameter types and return type; a match
\* there is kept with its score unchanged and ends the entry's attempts; the
\* return type alone is tried only right after that failed, and its match is
\* kept at 0.75 of its score; every attempt starts from an empty binding
\* table.
C5_FullThenReturn ==
  /\ \A p \in 1..Len(functions) :
       (Pool[functions[p]].hasSignature /\ (p < idx \/ (p = idx /\ pc # "loop")))
         => \E k \in 1..Len(attempts) :
              /\ attempts[k].entry = p
              /\ attempts[k].strategy = "full"
              /\ FirstForEntry(k)
  /\ \A k \in 1..Len(attempts) :
       /\ attempts[k].context = EmptyMap
       /\ FirstForEntry(k) => attempts[k].strategy = "full"
       /\ attempts[k].strategy = "full" => FirstForEntry(k)
       /\ attempts[k].strategy = "return"
            => AfterFailure(k) /\ attempts[k - 1].strategy = "full"
       /\ (attempts[k].strategy \in {"full", "return"} /\ attempts[k].matches)
            => LastForEntry(k)
  /\ (pc = "filter" /\ attempts[Len(attempts)].matches
        /\ attempts[Len(attempts)].strategy = "full")
       => mres.matches /\ mres.score = attempts[Len(attempts)].score
  /\ (pc = "filter" /\ attempts[Len(attempts)].matches
        /\ attempts[Len(attempts)].strategy = "return")
       => /\ mres.matches
          /\ mres.score = Mul(attempts[Len(attempts)].score, Rat(3, 4))

\* matchFunction returns a return-type match for one entry, after a
\* full-signature match had been returned for an earlier one.
C5_BothStrategiesKept ==
  /\ pc = "filter"
  /\ attempts[Len(attempts)].strategy = "return"
  /\ attempts[Len(attempts)].matches
  /\ \E k \in 1..Len(attempts) :
       /\ attempts[k].strategy = "full"
       /\ attempts[k].matches
       /\ Gt(attempts[k].score, Num(0))

\* C6: a parameter is tried only for a query that is no generic, effect or
\* function, after the full signature and the return type both failed; the
\* parameters are tried in their declared order, each after the one before
\* it failed, and the first match is kept at 0.6 of its score; an entry
\* without a matching attempt is not among the results.
C6_ParameterStrategy ==
  /\ \A k \in 1..Len(attempts) :
       attempts[k].strategy = "param" =>
         /\ queryType.kind \notin {"generic", "effect", "function"}
         /\ AfterFailure(k)
         /\ IF attempts[k].param = 1
              THEN /\ attempts[k - 1].strategy = "return"
                   /\ AfterFailure(k - 1)
                   /\ attempts[k - 2].strategy = "full"
              ELSE /\ attempts[k - 1].strategy = "param"
                   /\ attempts[k - 1].param = attempts[k].param - 1
         /\ attempts[k].matches => LastForEntry(k)
  /\ (pc = "filter" /\ attempts[Len(attempts)].matches
        /\ attempts[Len(attempts)].strategy = "param")
       => /\ mres.matches
          /\ mres.score = Mul(attempts[Len(attempts)].score, Rat(3, 5))
  /\ \A p \in 1..Len(functions) :
       MatchingAttempts(p) = {} => ResultsFor(p) = {}
  /\ (pc = "filter" /\ ~attempts[Len(attempts)].matches) => ~mres.matches

\* The score the query would get against parameter j of the entry at p.
ParameterAlone(p, j) ==
  unifyTypes(queryType, Pool[functions[p]].signatureParsed.parameters[j].type,
             createContext, 0).res

\* A second parameter matched after the first had failed; and for an earlier
\* entry the first parameter's match was kept although a later parameter
\* scores higher.
C6_FirstNotBest ==
  /\ pc = "filter"
  /\ attempts[Len(attempts)].strategy = "param"
  /\ attempts[Len(attempts)].param > 1
  /\ attempts[Len(attempts)].matches
  /\ \E k \in 1..Len(attempts) :
       /\ attempts[k].strategy = "param"
       /\ attempts[k].matches
       /\ attempts[k].param = 1
       /\ ParameterAlone(attempts[k].entry, 2).matches
       /\ Gt(ParameterAlone(attempts[k].entry, 2).score, attempts[k].score)

\* Whether the query is N<V1, ..., Vk> with pairwise distinct type variables.
ConstructorOfVariables(q) ==
  /\ q.kind \in {"generic", "effect"}
  /\ q.hasTypeArguments
  /\ \A i \in 1..Len(q.typeArguments) : q.typeArguments[i].isTypeVariable
  /\ \A i, j \in 1..Len(q.typeArguments) :
       i # j => q.typeArguments[i].text # q.typeArguments[j].text

\* The catalog positions whose entry returns a generic or effect node.
ReturningConstructed ==
  {p \in 1..Len(functions) :
     /\ Pool[functions[p]].hasSignature
     /\ Pool[functions[p]].signatureParsed.returnType.kind
          \in {"generic", "effect"}}

ReturnTypeAt(p) == Pool[functions[p]].signatureParsed.returnType

SameConstructor(p) ==
  toLowerCase(ReturnTypeAt(p).typeName) = toLowerCase(queryType.typeName)

IsReturned(p) == \E k \in 1..Len(returned) : returned[k].entry = functions[p]

\* Whether the return type at p has no type-argument list and the query's
\* text, ignoring case.
SameTextNoArguments(p) ==
  /\ ~ReturnTypeAt(p).hasTypeArguments
  /\ toLowerCase(ReturnTypeAt(p).text) = toLowerCase(queryType.text)

\* C7 (amended): for a query N<V1, ..., Vk> of pairwise distinct type
\* variables and a limit no smaller than the catalog, every entry returning a
\* generic/effect node named N (ignoring case) with a type-argument list is
\* returned; an entry returning a generic/effect node of another name is
\* returned exactly when that node has no type-argument list and its text is
\* the query's text ignoring case, and is left out otherwise.
C7_ByConstructorOrText ==
  (pc = "done" /\ ConstructorOfVariables(queryType) /\ limit >= Len(functions))
    => \A p \in ReturningConstructed :
         /\ (SameConstructor(p) /\ ReturnTypeAt(p).hasTypeArguments)
              => IsReturned(p)
         /\ ~SameConstructor(p) => (IsReturned(p) <=> SameTextNoArguments(p))

\* One search returned an entry of the query's constructor, left out an entry
\* of another constructor that has type arguments, and returned an entry of
\* another constructor for its text.
C7_IncludedAndExcluded ==
  /\ pc = "done"
  /\ ConstructorOfVariables(queryType)
  /\ limit >= Len(functions)
  /\ \E p \in ReturningConstructed :
       /\ SameConstructor(p)
       /\ ReturnTypeAt(p).hasTypeArguments
       /\ IsReturned(p)
  /\ \E p \in ReturningConstructed :
       /\ ~SameConstructor(p)
       /\ ReturnTypeAt(p).hasTypeArguments
       /\ ~IsReturned(p)
  /\ \E p \in ReturningConstructed :
       /\ ~SameConstructor(p)
       /\ SameTextNoArguments(p)
       /\ IsReturned(p)

\* C7 as stated: every entry returning a generic/effect node of another
\* constructor name is left out.
C7_ByConstructor ==
  (pc = "done" /\ ConstructorOfVariables(queryType) /\ limit >= Len(functions))
    => \A p \in ReturningConstructed :
         /\ (SameConstructor(p) /\ ReturnTypeAt(p).hasTypeArguments)
              => IsReturned(p)
         /\ ~SameConstructor(p) => ~IsReturned(p)

-----------------------------------------------------------------------------
(* Properties of unifyTypes                                                *)

LastChild(n) == n.children[Len(n.children)]

\* Whether the direct call was on two function nodes with a child each, below
\* the depth limit.
FunctionPair ==
  /\ pc = "unified"
  /\ uq.kind = "function" /\ ~uq.isWildcard /\ ~uq.isTypeVariable
  /\ ut.kind = "function" /\ ~ut.isTypeVariable
  /\ uq.hasChildren /\ Len(uq.children) >= 1
  /\ ut.hasChildren /\ Len(ut.children) >= 1
  /\ ud < 10

\* The unification of the two return types, as the function rule makes it.
ReturnTypesAlone == unifyTypes(LastChild(uq), LastChild(ut), ub, ud + 1)

\* C8: two function nodes with at least one child each, unified below depth
\* 10, match exactly when their last children, unified one level deeper from
\* the same bindings, match.
C8_ReturnTypeDecides ==
  FunctionPair => (ures.res.matches <=> ReturnTypesAlone.res.matches)

\* Two function nodes matched although their first parameters do not unify,
\* and their parameter counts differ.
C8_MatchDespiteParameters ==
  /\ FunctionPair
  /\ ures.res.matches
  /\ Len(uq.children) = 3
  /\ Len(ut.children) = 2
  /\ ~unifyTypes(uq.children[1], ut.children[1], ReturnTypesAlone.ctx,
                 ud + 1).res.matches

\* C9: a direct call returns a match result; each nested call it led to was
\* made at the caller's depth plus one, by a caller below depth 10, so at a
\* depth of at most 10.
C9_DepthBounded ==
  pc = "unified" =>
    /\ ures.res.matches \in BOOLEAN
    /\ \A call \in ures.calls :
         /\ call[2] = call[1] + 1
         /\ call[1] >= ud
         /\ call[1] < 10
         /\ call[2] <= 10

\* Two trees nested deeper than the limit were unified from depth 0: the
\* calls went down to depth 10 and stopped there.
C9_ReachedLimit ==
  /\ pc = "unified"
  /\ ud = 0
  /\ uq \in DeepTrees
  /\ ut \in DeepTrees
  /\ {call[2] : call \in ures.calls} = 1..10

\* C10: a wildcard query unified at depth 0 matches with score 80, whatever
\* the target, and the binding table is left as it was.
C10_WildcardMatches ==
  (pc = "unified" /\ uq.isWildcard /\ ud = 0) =>
    /\ ures.res.matches
    /\ ures.res.score = Num(80)
    /\ ures.res.bindings = ub
    /\ ures.ctx = ub

\* A wildcard was unified at depth 0 with a function type, under a binding
\* table that holds a binding.
C10_WildcardOnFunction ==
  /\ pc = "unified"
  /\ uq.isWildcard
  /\ ud = 0
  /\ ut.kind = "function"
  /\ ub # EmptyMap
  /\ ures.res.matches

\* Whether the direct call was on two plain primitive nodes below the depth
\* limit.
PrimitivePair ==
  /\ pc = "unified"
  /\ ud < 10
  /\ uq.kind = "primitive" /\ ~uq.isWildcard /\ ~uq.isTypeVariable
  /\ ut.kind = "primitive" /\ ~ut.isTypeVariable

\* C11: two primitive nodes unified below depth 10 match with score 100 when
\* their texts are equal ignoring case, and do not match when they differ.
C11_PrimitivesByText ==
  PrimitivePair =>
    IF toLowerCase(uq.text) = toLowerCase(ut.text)
      THEN ures.res.matches /\ ures.res.score = Num(100)
      ELSE ~ures.res.matches

\* Two primitives whose texts differ only in case were unified, and matched.
C11_CaseFolded ==
  /\ PrimitivePair
  /\ uq.text # ut.text
  /\ toLowerCase(uq.text) = toLowerCase(ut.text)
  /\ ures.res.matches

\* Whether the direct call had a type variable the table does not bind as
\* its query, below the depth limit.
UnboundVariableQuery ==
  /\ pc = "unified"
  /\ ud < 10
  /\ uq.isTypeVariable /\ ~uq.isWildcard
  /\ ~MapHas(ub, uq.text)

\* Whether the direct call was on two generic/effect nodes of one name, the
\* query's first argument a type variable, from an empty table, the arguments
\* below the depth limit.
VariableFirstArgument ==
  /\ pc = "unified"
  /\ ud + 1 < 10
  /\ ub = EmptyMap
  /\ uq.kind \in {"generic", "effect"} /\ ut.kind \in {"generic", "effect"}
  /\ uq.hasTypeArguments /\ ut.hasTypeArguments
  /\ toLowerCase(uq.typeName) = toLowerCase(ut.typeName)
  /\ Len(uq.typeArguments) >= 1 /\ Len(ut.typeArguments) >= 1
  /\ uq.typeArguments[1].isTypeVariable

ParserKinds ==
  {"function", "union", "generic", "effect", "tuple", "primitive",
   "typeVariable", "wildcard", "reference", "unknown"}

\* The nodes of the recursive calls of the parseType call at hand.
SubNodes == MapParseType(SubTexts(trim(ptext)))

\* C13: parseTypeQuery returns for every query, null for a blank one and a
\* node of a parser kind for every other one, unbalanced brackets, dangling
\* arrows and dangling bars included; every recursive parseType call is
\* given a text strictly shorter than its caller's, and the node built is
\* the node of the one call made for a parenthesized text, or has the nodes
\* of those calls as its children or type arguments.
C13_ParseTotal ==
  /\ pc \in {"parsing", "nested", "parsed"} =>
       IF IsBlank(pquery)
         THEN presult = Null
         ELSE presult # Null /\ presult.kind \in ParserKinds
  /\ pc = "parsing" => presult = parseType(ptext)
  /\ pc = "nested" => Len(ptext) < Len(pcaller)
  /\ (pc \in {"parsing", "nested"} /\ trim(ptext) # <<>>) =>
       LET node == parseType(ptext)
       IN  /\ node.kind \in ParserKinds
           /\ \/ SubNodes = <<node>>
              \/ node.hasChildren /\ node.children = SubNodes
              \/ node.hasTypeArguments /\ node.typeArguments = SubNodes
              \/ /\ ~node.hasChildren /\ ~node.hasTypeArguments
                 /\ SubNodes = <<>>

\* A query with an unclosed bracket was parsed to a node, and a recursive
\* call two levels down is at hand.
C13_MalformedParsed ==
  /\ pc = "nested"
  /\ DepthAfter(pquery, 1, 0) # 0
  /\ presult # Null
  /\ pcaller # normalizeArrows(trim(pquery))

\* A Haskell arrow with white space on both sides starts at index i of q.
DelimitedArrow(q, i) ==
  /\ 1 < i /\ i + 2 <= Len(q)
  /\ q[i] = "-" /\ q[i + 1] = ">"
  /\ q[i - 1] \in Whitespace /\ q[i + 2] \in Whitespace

\* The query q with each of its white-space-delimited arrows written =>.
WriteTypeScript(q) ==
  [i \in 1..Len(q) |-> IF DelimitedArrow(q, i) THEN "=" ELSE q[i]]

\* Every white-space-delimited arrow of q stands between two texts, one
\* space away from each, and shares that space with no other arrow.
SingleSpaced(q) ==
  \A i \in 1..Len(q) : DelimitedArrow(q, i) =>
    /\ q[i - 1] = " " /\ q[i + 2] = " "
    /\ 1 <= i - 2 /\ q[i - 2] \notin Whitespace
    /\ i + 3 <= Len(q) /\ q[i + 3] \notin Whitespace
    /\ ~DelimitedArrow(q, i + 3)

\* A tree without the raw texts of its inner nodes: kinds, names, leaf texts
\* and children in order.
RECURSIVE Structure(_)
Structure(n) ==
  [n EXCEPT
     !.text = IF n.hasChildren \/ n.hasTypeArguments THEN <<>> ELSE n.text,
     !.children = [k \in 1..Len(n.children) |-> Structure(n.children[k])],
     !.typeArguments =
       [k \in 1..Len(n.typeArguments) |-> Structure(n.typeArguments[k])]]

\* C14: a query whose white-space-delimited arrows each stand between two
\* texts, exactly one space away from each and sharing it with no other
\* arrow, parses to the same tree, texts included, whether those arrows are
\* written -> or =>.
C14_SingleSpacedArrows ==
  (pc \in {"parsing", "parsed"} /\ SingleSpaced(pquery)) =>
    presult = parseTypeQuery(WriteTypeScript(pquery))

\* "A -> Effect<A, E, R>" was parsed: a function of one type variable that
\* returns an effect.
C14_HaskellArrowParsed ==
  /\ pc = "parsing"
  /\ pquery = Q_AArrowEffectAER
  /\ WriteTypeScript(pquery) # pquery
  /\ SingleSpaced(pquery)
  /\ presult.kind = "function"
  /\ Len(presult.children) = 2
  /\ presult.children[1].isTypeVariable
  /\ presult.children[2].kind = "effect"

\* C14 as stated: whatever the query, writing its white-space-delimited
\* arrows -> or => gives trees of the same structure.
C14_AnyArrow ==
  pc \in {"parsing", "parsed"} =>
    Structure(presult) = Structure(parseTypeQuery(WriteTypeScript(pquery)))

\* C15: every invocation that has returned, whatever steps of the others
\* came in between, returned what searchByType returns for its arguments
\* alone; every unifyTypes call of matchFunction starts from an empty Map,
\* and no two invocations hold the same Map.
C15_SameAsAlone ==
  /\ \A i \in 1..Len(inv) :
       /\ inv[i].pc = "done" =>
            inv[i].returned = searchByType(inv[i].query, functions, inv[i].limit)
       /\ inv[i].pc \in {"full", "return", "param"} =>
            tables[inv[i].ctx] = createContext
  /\ \A i, j \in 1..Len(inv) :
       (i # j /\ inv[i].ctx # <<>>) => inv[i].ctx # inv[j].ctx

\* Two invocations with different queries have returned different, non-empty
\* results, each having unified while the other held a Map of its own.
C15_BothReturned ==
  /\ Len(inv) = 2
  /\ inv[1].pc = "done" /\ inv[2].pc = "done"
  /\ inv[1].beside /\ inv[2].beside
  /\ inv[1].query # inv[2].query
  /\ inv[1].returned # <<>> /\ inv[2].returned # <<>>
  /\ inv[1].returned # inv[2].returned
  /\ \E id \in DOMAIN tables : tables[id] # createContext

\* The parameters of a function node: all children but the last.
ParamsOf(n) == SubSeq(n.children, 1, Len(n.children) - 1)

\* The results of unifying the parameters of the two function nodes position
\* by position from position i on, each from the bindings the one before
\* left, one level deeper than the call.
RECURSIVE PairResults(_, _, _, _)
PairResults(qp, tp, i, ctx) ==
  IF i > Len(qp) \/ i > Len(tp) THEN <<>>
  ELSE LET r == unifyTypes(qp[i], tp[i], ctx, ud + 1)
       IN  <<r.res>> \o PairResults(qp, tp, i + 1, r.ctx)

ComparedPairs ==
  PairResults(ParamsOf(uq), ParamsOf(ut), 1, ReturnTypesAlone.ctx)

\* The sum, over the pairs, of the pair's score if it matched and 20 if not.
RECURSIVE SumOfPairs(_)
SumOfPairs(pairs) ==
  IF pairs = <<>> THEN Num(0)
  ELSE Add(IF Head(pairs).matches THEN Head(pairs).score ELSE Num(20),
           SumOfPairs(Tail(pairs)))

MeanOfPairs == Div(SumOfPairs(ComparedPairs), Len(ComparedPairs))

\* paramScore as C16 states it: the bonus asks for equal lengths and every
\* compared pair matched.
StatedParamScore ==
  IF Len(ComparedPairs) = 0 THEN Num(50)
  ELSE IF /\ Len(ParamsOf(uq)) = Len(ParamsOf(ut))
          /\ \A k \in 1..Len(ComparedPairs) : ComparedPairs[k].matches
    THEN MathMin(Num(100), Mul(MeanOfPairs, Rat(11, 10)))
  ELSE MeanOfPairs

\* C16 as stated: two function nodes whose return types match, unified below
\* depth 10, match with 0.9 x returnScore when the query has no parameter,
\* and otherwise with 0.6 x returnScore + 0.4 x paramScore, paramScore the
\* mean over the compared positions of the pair's score or 20, raised by 1.1
\* (at most 100) only when the lists are equally long and every pair
\* matched, and 50 when no position was compared.
C16_ParamScoreAsStated ==
  (FunctionPair /\ ReturnTypesAlone.res.matches) =>
    /\ ures.res.matches
    /\ ures.res.score =
         IF Len(ParamsOf(uq)) = 0
           THEN Mul(ReturnTypesAlone.res.score, Rat(9, 10))
           ELSE Add(Mul(ReturnTypesAlone.res.score, Rat(6, 10)),
                    Mul(StatedParamScore, Rat(4, 10)))

\* (string) => string against (number) => string: the return types score
\* 100, the one pair of parameters does not match and counts 20, and the call
\* scores 0.6 x 100 + 0.4 x 22.
C16_BonusOnMismatch ==
  /\ FunctionPair
  /\ ud = 0
  /\ uq = fn(<<primitive(S_string)>>, primitive(S_string))
  /\ ut = fn(<<primitive(S_number)>>, primitive(S_string))
  /\ ReturnTypesAlone.res.score = Num(100)
  /\ ~ComparedPairs[1].matches
  /\ ures.res.score = Rat(344, 5)
  /\ ures.res.score # Add(Num(60), Mul(Num(20), Rat(4, 10)))

\* C17 as stated: every result of unifyTypes carries a score that is a
\* number from 0 to 100, 0 for a non-match and more than 0 for a match.
C17_ScoreInRange ==
  pc = "unified" =>
    /\ Ge(ures.res.score, Num(0))
    /\ Ge(Num(100), ures.res.score)
    /\ ~ures.res.matches => ures.res.score = Num(0)
    /\ ures.res.matches => Gt(ures.res.score, Num(0))

\* The empty tuple was unified with the empty tuple: a match whose score,
\* 0 / 0, is not a number.
C17_EmptyTuples ==
  /\ pc = "unified"
  /\ ud = 0
  /\ uq = tuple(<<>>)
  /\ ut = tuple(<<>>)
  /\ ures.res.matches
  /\ IsNaN(ures.res.score)

\* Whether the direct call was on a wildcard inside one tuple and a tuple of
\* one element, below the depth limit.
WildcardInTuple ==
  /\ pc = "unified"
  /\ uq = tuple(<<WildcardNode>>)
  /\ ut.kind = "tuple" /\ ut.hasChildren /\ Len(ut.children) = 1
  /\ ud < MAX_UNIFY_DEPTH

\* What the depth-limit rule lets a wildcard match: the text "*" and type
\* variables.
PassesAtLimit(t) == t.text = <<"*">> \/ t.isTypeVariable

\* C18: a wildcard query unified at a depth below 10 matches any target with
\* score 80; at depth 10 or more it matches only a target whose text is "*"
\* or that is a type variable.  So a wildcard inside a tuple, unified with a
\* one-element tuple from depth d < 10, matches whatever the element when
\* d + 1 < 10, and from d = 9 only an element the depth limit lets through.
C18_WildcardBelowLimit ==
  /\ (pc = "unified" /\ uq.isWildcard) =>
       IF ud < MAX_UNIFY_DEPTH
         THEN ures.res.matches /\ ures.res.score = Num(80)
         ELSE ures.res.matches <=> PassesAtLimit(ut)
  /\ WildcardInTuple =>
       IF ud + 1 < MAX_UNIFY_DEPTH
         THEN ures.res.matches /\ ures.res.score = Num(80)
         ELSE ures.res.matches <=> PassesAtLimit(ut.children[1])

\* A wildcard ten tuples deep was unified from depth 0 with a string ten
\* tuples deep, and did not match.
C18_NestedAtLimit ==
  /\ pc = "unified"
  /\ ud = 0
  /\ uq = Nested(MAX_UNIFY_DEPTH, WildcardNode)
  /\ ut = Nested(MAX_UNIFY_DEPTH, primitive(S_string))
  /\ ~ures.res.matches
  /\ <<9, 10>> \in ures.calls

\* C18 as stated: a wildcard query matches its target at whatever depth it
\* is unified, alone or inside a tuple.
C18_WildcardAnyDepth ==
  /\ (pc = "unified" /\ uq.isWildcard) => ures.res.matches
  /\ WildcardInTuple => ures.res.matches

\* C19: a unifyTypes call at depth 10 or more makes no recursive call and
\* leaves the binding table as it was; it matches with score 60 when the two
\* texts are identical, otherwise with score 50 when either node is a type
\* variable, and otherwise does not match.
C19_DepthLimitRule ==
  (pc = "unified" /\ ud >= 10) =>
    /\ ures.calls = {}
    /\ ures.ctx = ub
    /\ ures.res.matches => ures.res.bindings = ub
    /\ IF uq.text = ut.text
         THEN ures.res.matches /\ ures.res.score = Num(60)
       ELSE IF uq.isTypeVariable \/ ut.isTypeVariable
         THEN ures.res.matches /\ ures.res.score = Num(50)
       ELSE ~ures.res.matches /\ ures.res.score = Num(0)

\* The unbound variable A was unified with a tuple at depth 10: a match with
\* score 50, and A is still unbound.
C19_VariableAtLimit ==
  /\ pc = "unified"
  /\ ud = 10
  /\ uq = TV_A
  /\ ub = EmptyMap
  /\ ut.kind = "tuple" /\ Len(ut.children) > 0
  /\ ures.res.matches
  /\ ures.res.score = Num(50)
  /\ ~MapHas(ures.ctx, <<"A">>)

\* Whether the direct call was, below the depth limit, on a type variable
\* that the table binds.
BoundVariableQuery ==
  /\ pc = "unified"
  /\ ud < 10
  /\ uq.isTypeVariable /\ ~uq.isWildcard
  /\ MapHas(ub, uq.text)

\* Both nodes carry a constructor name, and the two names differ.
NamesDiffer(b, t) ==
  b.typeName # <<>> /\ t.typeName # <<>> /\ b.typeName # t.typeName

\* C20: a type-variable query bound to b, unified below depth 10, matches the
\* target with score 90 when b's text is the target's, otherwise with 85
\* when b or the target is a type variable, otherwise with 80 when b and the
\* target are of the same kind and do not carry two different constructor
\* names, and otherwise not at all; no call is made and the table is left
\* as it was.
C20_BoundVariableRule ==
  BoundVariableQuery =>
    LET b == ub[uq.text]
    IN  /\ ures.ctx = ub
        /\ ures.calls = {}
        /\ ures.res.matches => ures.res.bindings = ub
        /\ IF b.text = ut.text
             THEN ures.res.matches /\ ures.res.score = Num(90)
           ELSE IF b.isTypeVariable \/ ut.isTypeVariable
             THEN ures.res.matches /\ ures.res.score = Num(85)
           ELSE IF b.kind = ut.kind /\ ~NamesDiffer(b, ut)
             THEN ures.res.matches /\ ures.res.score = Num(80)
           ELSE ~ures.res.matches

\* A, bound to Foo<number>, was unified with Foo<string>: score 80, and A is
\* still bound to Foo<number>.
C20_SameConstructorBound ==
  /\ BoundVariableQuery
  /\ ub[uq.text] = generic("generic", S_Foo, <<primitive(S_number)>>)
  /\ ut = generic("generic", S_Foo, <<primitive(S_string)>>)
  /\ ures.res.matches
  /\ ures.res.score = Num(80)
  /\ ures.ctx[uq.text] = ub[uq.text]

\* C21: a target that is a type variable is matched by every query, under
\* every binding table and at every depth; below depth 10 a query that is
\* neither a wildcard nor a type variable scores 85, makes no call and leaves
\* the table as it was.
C21_TargetVariableMatches ==
  (pc = "unified" /\ ut.isTypeVariable) =>
    /\ ures.res.matches
    /\ (ud < 10 /\ ~uq.isWildcard /\ ~uq.isTypeVariable) =>
         /\ ures.res.score = Num(85)
         /\ ures.ctx = ub
         /\ ures.res.bindings = ub
         /\ ures.calls = {}

\* A function query with two parameters was unified with the type variable B
\* under a table that binds A: score 85, the table unchanged.
C21_FunctionOnVariable ==
  /\ pc = "unified"
  /\ ud = 0
  /\ ut = TV_B
  /\ uq.kind = "function" /\ Len(uq.children) = 3
  /\ ub # EmptyMap
  /\ ures.res.score = Num(85)
  /\ ures.ctx = ub

\* Whether the direct call was, below the depth limit, on two generic or
\* effect nodes that both carry a list of type arguments.
GenericPair ==
  /\ pc = "unified"
  /\ ud < 10
  /\ uq.kind \in {"generic", "effect"} /\ ut.kind \in {"generic", "effect"}
  /\ uq.hasTypeArguments /\ ut.hasTypeArguments
  /\ ~uq.isTypeVariable /\ ~uq.isWildcard /\ ~ut.isTypeVariable

\* The results of unifying the two argument lists position by position.
ComparedArguments == PairResults(uq.typeArguments, ut.typeArguments, 1, ub)

\* C22: two generic or effect nodes with type-argument lists of lengths m
\* and n, unified below depth 10, do not match when their constructor names
\* differ beyond case; otherwise they match with 100 when m = n = 0 and with
\* 60 when one list only is empty; otherwise they do not match when one of
\* the first min(m, n) pairs of arguments does not, and else match with the
\* mean of the pairs' scores, times 0.8 when m # n.  The kinds generic and
\* effect go together.
C22_GenericRule ==
  GenericPair =>
    LET m == Len(uq.typeArguments)
        n == Len(ut.typeArguments)
        pairs == ComparedArguments
    IN  IF toLowerCase(uq.typeName) # toLowerCase(ut.typeName)
          THEN ~ures.res.matches
        ELSE IF m = 0 /\ n = 0
          THEN ures.res.matches /\ ures.res.score = Num(100)
        ELSE IF m = 0 \/ n = 0
          THEN ures.res.matches /\ ures.res.score = Num(60)
        ELSE IF \E k \in 1..Len(pairs) : ~pairs[k].matches
          THEN ~ures.res.matches
        ELSE /\ ures.res.matches
             /\ Len(pairs) = (IF m < n THEN m ELSE n)
             /\ ures.res.score =
                  IF m # n
                    THEN Mul(Div(SumOfPairs(pairs), Len(pairs)), Rat(8, 10))
                    ELSE Div(SumOfPairs(pairs), Len(pairs))

\* foo<A, string>, a generic node, was unified with Foo<string>: they match
\* with 0.8 x 90.
C22_FewerTargetArguments ==
  /\ GenericPair
  /\ ud = 0
  /\ ub = EmptyMap
  /\ uq = generic("generic", toLowerCase(S_Foo), <<TV_A, primitive(S_string)>>)
  /\ ut = generic("generic", S_Foo, <<primitive(S_string)>>)
  /\ ures.res.matches
  /\ ures.res.score = Num(72)

\* Whether the direct call was, below the depth limit, on two union nodes
\* that both have members.
UnionPair ==
  /\ pc = "unified"
  /\ ud < 10
  /\ uq.kind = "union" /\ ut.kind = "union"
  /\ ~uq.isTypeVariable /\ ~uq.isWildcard /\ ~ut.isTypeVariable
  /\ Len(uq.children) > 0 /\ Len(ut.children) > 0

\* The attempt on query member i and target member j, made on the table the
\* union unification was given.
MemberAttempt(i, j) == unifyTypes(uq.children[i], ut.children[j], ub, ud + 1)

\* The highest score among the attempts of query member i that match.
BestMemberScore(i) ==
  LET scores == {MemberAttempt(i, j).res.score :
                   j \in {k \in 1..Len(ut.children) :
                            MemberAttempt(i, k).res.matches}}
  IN  IF \E s \in scores : \A s2 \in scores : s = s2 \/ Gt(s, s2)
        THEN CHOOSE s \in scores : \A s2 \in scores : s = s2 \/ Gt(s, s2)
        ELSE NaN

RECURSIVE SumOfBest(_)
SumOfBest(i) ==
  IF i = 0 THEN Num(0) ELSE Add(SumOfBest(i - 1), BestMemberScore(i))

\* Whether every query member matches at least one target member.
EveryMemberMatches ==
  \A i \in 1..Len(uq.children) :
    \E j \in 1..Len(ut.children) : MemberAttempt(i, j).res.matches

\* C23, the part on the binding table: the unification of two unions leaves
\* the table it was given as it was, match or not, and its score is the mean
\* over the query members of the best score among the attempts that each is
\* made alone on that table matches with; the members of the target no
\* query member matches take nothing off.
C23_AttemptsOnCopies ==
  UnionPair =>
    /\ ures.ctx = ub
    /\ ures.res.matches => ures.res.bindings = ub
    /\ ures.res.matches => EveryMemberMatches
    /\ ures.res.matches =>
         ures.res.score = Div(SumOfBest(Len(uq.children)), Len(uq.children))

\* C23 as stated: the union matches exactly when every query member matches
\* at least one target member, and the table is left as it was.
C23_MatchesExactlyWhenCovered ==
  UnionPair =>
    /\ ures.ctx = ub
    /\ ures.res.matches <=> EveryMemberMatches

\* "[] | string" was unified with "[] | string": each member matches a
\* member of the target, the empty tuple with a score that is not a number,
\* and the union does not match.
C23_CoveredButUnmatched ==
  /\ UnionPair
  /\ ud = 0
  /\ ub = EmptyMap
  /\ uq = union(<<tuple(<<>>), primitive(S_string)>>)
  /\ ut = uq
  /\ EveryMemberMatches
  /\ IsNaN(MemberAttempt(1, 1).res.score)
  /\ ~ures.res.matches

\* A | A was unified with string | number under an empty table: both members
\* match string with 90 although the attempt on number came between, and
\* the table is still empty.
C23_SecondMemberUnbound ==
  /\ UnionPair
  /\ ud = 0
  /\ ub = EmptyMap
  /\ uq = union(<<TV_A, TV_A>>)
  /\ ut = union(<<primitive(S_string), primitive(S_number)>>)
  /\ ures.res.matches
  /\ ures.ctx = EmptyMap

\* The text parseType(input) hands to splitTypeArgs (input is trimmed and
\* not empty), or the empty text when it splits no list.
ListText(input) ==
  IF startsWith(input, <<"(">>) THEN
    LET closeIdx == CloseParenLoop(input, 1, 1)
        inner == trim(slice(input, 1, closeIdx))
        rest == trim(slice(input, closeIdx + 1, Len(input)))
    IN  IF startsWith(rest, <<"=", ">">>) THEN inner ELSE <<>>
  ELSE IF findArrowPosition(input) # -1 THEN
    LET paramPart == trim(slice(input, 0, findArrowPosition(input)))
    IN  IF includes(paramPart, ",") THEN paramPart ELSE <<>>
  ELSE IF UnionLoop(input, 0, 0) # -1 \/ input = <<"*">> THEN <<>>
  ELSE IF genericMatch(input).found THEN genericMatch(input).argsStr
  ELSE IF startsWith(input, <<"[">>) /\ endsWith(input, <<"]">>) THEN
    trim(slice(input, 1, Len(input) - 1))
  ELSE <<>>

\* How many more "[" than "]" the first n characters of text hold.
RECURSIVE SquareDepth(_, _)
SquareDepth(text, n) ==
  IF n = 0 THEN 0
  ELSE SquareDepth(text, n - 1)
         + (IF text[n] = "[" THEN 1 ELSE IF text[n] = "]" THEN -1 ELSE 0)

\* Whether the square brackets of text pair up.
SquareNested(text) ==
  /\ SquareDepth(text, Len(text)) = 0
  /\ \A n \in 0..Len(text) : SquareDepth(text, n) >= 0

\* C24 as stated, for the square brackets: no list the parser splits is
\* split at a comma inside a nested [...], so that every element of a list
\* whose square brackets pair up has square brackets that pair up.
C24_NoSplitInsideTuple ==
  (pc \in {"parsing", "nested"} /\ trim(ptext) # <<>>
     /\ SquareNested(ListText(trim(ptext)))) =>
    \A k \in 1..Len(splitTypeArgs(ListText(trim(ptext)))) :
      SquareNested(splitTypeArgs(ListText(trim(ptext)))[k])

\* "[[A, B], C]" was parsed to a tuple of three children, the references
\* "[A" and "B]" and the type variable C.
C24_NestedTupleCut ==
  /\ pc = "parsing"
  /\ pquery = Q_TupleInTuple
  /\ presult.kind = "tuple"
  /\ Len(presult.children) = 3
  /\ presult.children[1] = ReferenceNode(<<"[", "A">>)
  /\ presult.children[2] = ReferenceNode(<<"B", "]">>)
  /\ presult.children[3] = typeVar(<<"C">>)

\* How many groups <...>, (...) or [...] are open after the first n
\* characters of text; the ">" of an arrow closes nothing.
RECURSIVE GroupDepth(_, _)
GroupDepth(text, n) ==
  IF n = 0 THEN 0
  ELSE GroupDepth(text, n - 1)
         + (IF text[n] \in {"<", "(", "["} THEN 1
            ELSE IF text[n] \in {")", "]"} THEN -1
            ELSE IF text[n] = ">" /\ ~(n > 1 /\ text[n - 1] = "=") THEN -1
            ELSE 0)

\* Whether the groups of text pair up.
GroupsNested(text) ==
  /\ GroupDepth(text, Len(text)) = 0
  /\ \A n \in 0..Len(text) : GroupDepth(text, n) >= 0

\* The 0-based positions of the arrows of text that no group encloses.
OpenArrows(text) ==
  {i \in 0..(Len(text) - 2) :
     /\ slice(text, i, i + 2) = <<"=", ">">>
     /\ GroupDepth(text, i) = 0}

\* The first arrow of text that no group encloses, or -1.
FirstOpenArrow(text) ==
  IF OpenArrows(text) = {} THEN -1
  ELSE CHOOSE i \in OpenArrows(text) : \A k \in OpenArrows(text) : i <= k

\* C25 as stated: an input that does not start with "(" and whose groups
\* pair up is split at its first arrow that no group encloses, and at no
\* arrow when a group encloses each.
C25_SplitAtFirstOpenArrow ==
  (pc \in {"parsing", "nested"} /\ trim(ptext) # <<>>
     /\ ~startsWith(trim(ptext), <<"(">>) /\ GroupsNested(trim(ptext))) =>
    findArrowPosition(trim(ptext)) = FirstOpenArrow(trim(ptext))

\* "F<A => B> => C" was parsed to one reference leaf named by the whole
\* text, not to a function.
C25_OuterArrowMissed ==
  /\ pc = "parsing"
  /\ pquery = Q_ArrowInGeneric
  /\ FirstOpenArrow(pquery) = 10
  /\ findArrowPosition(pquery) = -1
  /\ presult = ReferenceNode(pquery)

\* Whether the parseType call at hand is on a text that its leaf rules turn
\* into a type variable, a primitive or a reference.
LeafParsed ==
  /\ pc \in {"parsing", "nested"}
  /\ trim(ptext) # <<>>
  /\ parseType(ptext) = ParseLeaf(trim(ptext))

\* One uppercase letter, optionally followed by a single digit.
LetterAndDigit(text) ==
  /\ Len(text) \in {1, 2}
  /\ text[1] \in Upper
  /\ Len(text) = 2 => text[2] \in Digit

\* C26 as stated: the leaf is a type variable exactly when its text is one
\* uppercase letter optionally followed by a single digit.
C26_LetterAndOneDigit ==
  LeafParsed =>
    (parseType(ptext).kind = "typeVariable" <=> LetterAndDigit(trim(ptext)))

\* "A12", one letter and two digits, was parsed to a type variable.
C26_TwoDigitVariable ==
  /\ LeafParsed
  /\ pc = "parsing"
  /\ pquery = <<"A", "1", "2">>
  /\ presult = typeVar(pquery)
  /\ presult.isTypeVariable

\* The 0-based positions of the "|" of input at depth 0, as the scanners
\* count the depth (one up on "<", "(", "[", one down on ">", ")", "]"), with
\* text that is not blank on both sides.
Bars(input) ==
  {i \in 0..(Len(input) - 1) :
     /\ input[i + 1] = "|"
     /\ DepthAfter(SubSeq(input, 1, i + 1), 1, 0) = 0
     /\ trim(slice(input, 0, i)) # <<>>
     /\ trim(slice(input, i + 1, Len(input))) # <<>>}

FirstBar(input) == CHOOSE i \in Bars(input) : \A k \in Bars(input) : i <= k

LastBar(input) == CHOOSE i \in Bars(input) : \A k \in Bars(input) : i >= k

\* Whether the parseType call at hand is on a text that does not start with
\* "(", has no arrow to split at and has a "|" to split at.
UnionParsed ==
  /\ pc \in {"parsing", "nested"}
  /\ trim(ptext) # <<>>
  /\ ~startsWith(trim(ptext), <<"(">>)
  /\ findArrowPosition(trim(ptext)) = -1
  /\ Bars(trim(ptext)) # {}

\* C27, amended: a text that does not start with "(" and has no arrow to
\* split at, and that has a "|" at depth 0 with text on both sides, parses to
\* a union node of exactly two children: the parse of what stands before its
\* first such "|" and the parse of all that stands after it.  A chain of
\* three or more members leans to the right: the left child is the first
\* member and the right child, when the rest has such a "|" of its own, is the
\* union of the later ones.
C27_SplitAtFirstBar ==
  UnionParsed =>
    LET input == trim(ptext)
        node == parseType(ptext)
        i == FirstBar(input)
    IN  /\ node.kind = "union"
        /\ node.text = input
        /\ node.hasChildren /\ Len(node.children) = 2
        /\ node.children[1] = parseType(slice(input, 0, i))
        /\ node.children[2] = parseType(slice(input, i + 1, Len(input)))
        /\ Bars(trim(slice(input, 0, i))) = {}
        /\ LET rest == trim(slice(input, i + 1, Len(input)))
           IN  (Bars(rest) # {} /\ ~startsWith(rest, <<"(">>)
                  /\ findArrowPosition(rest) = -1) =>
                 /\ node.children[2].kind = "union"
                 /\ Len(node.children[2].children) = 2

\* "A | B | C" was parsed to the union of A and of the union of B and C.
C27_ChainLeansRight ==
  /\ UnionParsed
  /\ pc = "parsing"
  /\ pquery = Q_UnionChain
  /\ presult.kind = "union"
  /\ presult.children[1] = typeVar(<<"A">>)
  /\ presult.children[2].kind = "union"
  /\ presult.children[2].children = <<typeVar(<<"B">>), typeVar(<<"C">>)>>

\* C27 as stated: the union has two children and a chain leans to the left,
\* the right child being the parse of the last member.
C27_ChainLeansLeft ==
  UnionParsed =>
    LET input == trim(ptext)
        node == parseType(ptext)
    IN  /\ node.kind = "union"
        /\ Len(node.children) = 2
        /\ Bars(input) # {FirstBar(input)} =>
             /\ node.children[1].kind = "union"
             /\ node.children[2] =
                  parseType(slice(input, LastBar(input) + 1, Len(input)))

\* C28 as stated: a unify call that returns no match leaves the binding
\* table it was given with exactly the bindings it held on entry.
C28_FailureLeavesTable ==
  (pc = "unified" /\ ~ures.res.matches) => ures.ctx = ub

\* Foo<A, string> was unified with Foo<string, number> under an empty table:
\* no match, on the second argument, and A is left bound to string.
C28_BindingLeftBehind ==
  /\ pc = "unified"
  /\ ud = 0
  /\ ub = EmptyMap
  /\ uq = generic("generic", S_Foo, <<TV_A, primitive(S_string)>>)
  /\ ut = generic("generic", S_Foo, <<primitive(S_string), primitive(S_number)>>)
  /\ ~ures.res.matches
  /\ MapHas(ures.ctx, <<"A">>)
  /\ ures.ctx[<<"A">>] = primitive(S_string)

\* (Foo<A, string>, A) => string was unified with
\* (Foo<number, number>, string) => string: the first parameter does not
\* match, and the second, A against string, is compared with A bound to
\* number, the binding the first left behind.
C28_LaterParameterObserves ==
  /\ pc = "unified"
  /\ ud = 0
  /\ ub = EmptyMap
  /\ uq = Q_GenericThenVariable
  /\ ut = T_GenericThenString
  /\ ~ComparedPairs[1].matches
  /\ ComparedPairs[2].matches
  /\ ComparedPairs[2].score # unifyTypes(TV_A, primitive(S_string), ub, 1).res.score
  /\ ures.ctx[<<"A">>] = primitive(S_number)

\* The nodes of a tree: the node, and the nodes of its children and of its
\* type arguments.
RECURSIVE AllNodes(_)
AllNodes(node) ==
  {node}
    \cup UNION {AllNodes(node.children[k]) : k \in 1..Len(node.children)}
    \cup UNION {AllNodes(node.typeArguments[k]) :
                  k \in 1..Len(node.typeArguments)}

\* The names the table b binds.
BoundNames(b) == DOMAIN b

\* C29: a unify call leaves every name the table bound bound to the same
\* node, and each name it adds is the text of a type variable of the query
\* that the table did not bind, bound to a node of the target; the
\* unification of two unions adds nothing.
C29_TableOnlyGrows ==
  pc = "unified" =>
    /\ \A k \in BoundNames(ub) :
         k \in BoundNames(ures.ctx) /\ ures.ctx[k] = ub[k]
    /\ \A k \in BoundNames(ures.ctx) \ BoundNames(ub) :
         /\ \E n \in AllNodes(uq) : n.isTypeVariable /\ n.text = k
         /\ ures.ctx[k] \in AllNodes(ut)
    /\ UnionPair => ures.ctx = ub

\* [B, A] was unified with [string, number] with A bound to string: B is
\* added, bound to string, and A, compared with number, is still bound to
\* string.
C29_BoundKeptOtherAdded ==
  /\ pc = "unified"
  /\ ud = 0
  /\ ub = MapSet(EmptyMap, <<"A">>, primitive(S_string))
  /\ uq = tuple(<<TV_B, TV_A>>)
  /\ ut = tuple(<<primitive(S_string), primitive(S_number)>>)
  /\ ures.res.matches
  /\ BoundNames(ures.ctx) = {<<"A">>, <<"B">>}
  /\ ures.ctx[<<"A">>] = primitive(S_string)
  /\ ures.ctx[<<"B">>] = primitive(S_string)

\* Whether the entry at position k of the catalog declares a bare type
\* variable as its return type.
ReturnsVariable(k) ==
  /\ Pool[functions[k]].hasSignature
  /\ Pool[functions[k]].signatureParsed.returnType.isTypeVariable

\* C30 as stated: an entry whose declared return type is a bare type
\* variable is matched by the full-signature or the return-type strategy
\* with a final score above 30, and is among the results before the limit
\* cuts them.
C30_VariableReturnListed ==
  /\ (pc = "filter" /\ ReturnsVariable(idx)) =>
       /\ attempts[Len(attempts)].strategy \in {"full", "return"}
       /\ mres.matches
       /\ Gt(mres.score, Num(30))
  /\ (pc = "done" /\ queryType # Null) =>
       \A k \in 1..Len(functions) :
         ReturnsVariable(k) =>
           \E r \in 1..Len(results) : results[r].entry = functions[k]

\* The search for "[] => A" over the one entry Tuple.absurd, ([]) => A, with
\* the default limit is over: the full signature matched, with a score that
\* is not a number, and nothing is returned.
C30_MatchedButNotListed ==
  /\ pc = "done"
  /\ query = Q_EmptyTupleToA
  /\ limit = DefaultLimit
  /\ Len(functions) = 1
  /\ ReturnsVariable(1)
  /\ Pool[functions[1]].signatureParsed.parameters[1].type = EmptyTupleNode
  /\ attempts[Len(attempts)].strategy = "full"
  /\ attempts[Len(attempts)].matches
  /\ IsNaN(attempts[Len(attempts)].score)
  /\ returned = <<>>

====
